---------------------------- MODULE Spec2Model ----------------------------
(***************************************************************************)
(* State-machine model of the collision / constraint-solver core:          *)
(*   - the velocity constraint solver  (Dynamics/Contacts/ContactSolver.cpp)*)
(*   - the time-of-impact search       (Collision/TimeOfImpact.cpp)        *)
(*                                                                         *)
(* Real numbers (RealNum / float_t) are modelled as fixed-point integers:  *)
(* a real r of the solver is the integer r * Unit, and a product or a      *)
(* quotient is rounded toward zero to the next representable value, as a   *)
(* floating-point operation rounds its exact result.                       *)
(***************************************************************************)
EXTENDS Integers, Sequences, FiniteSets, TLC

(***************************************************************************)
(* Bounds of the model.                                                    *)
(***************************************************************************)
\* Number of SolveVelocityConstraint calls (solver iterations) explored.
MaxCalls == 3
\* Initial velocity components of body B range over -MaxSpeed..MaxSpeed
\* half units.
MaxSpeed == 2

(***************************************************************************)
(* Fixed-point reals.                                                      *)
(***************************************************************************)
\* RealNum 1.0
Unit == 16

Abs(x) == IF x < 0 THEN -x ELSE x

Sgn(x) == IF x < 0 THEN -1 ELSE IF x > 0 THEN 1 ELSE 0

Max(a, b) == IF a > b THEN a ELSE b

Min(a, b) == IF a < b THEN a ELSE b

\* Clamp(a, low, high) = Max(low, Min(a, high))
Clamp(a, low, high) == Max(low, Min(a, high))

\* a * b on reals
FMul(a, b) == Sgn(a * b) * (Abs(a * b) \div Unit)

\* a / b on reals (b # 0)
FDiv(a, b) == Sgn(a) * Sgn(b) * ((Abs(a) * Unit) \div Abs(b))

(***************************************************************************)
(* Vec2 and Mat22: a vector is <<x, y>>, a matrix is [ex |-> col, ey |-> col]. *)
(***************************************************************************)
VAdd(a, b) == <<a[1] + b[1], a[2] + b[2]>>

VSub(a, b) == <<a[1] - b[1], a[2] - b[2]>>

VNeg(a) == <<-a[1], -a[2]>>

\* s * v
VScale(s, v) == <<FMul(s, v[1]), FMul(s, v[2])>>

Dot(a, b) == FMul(a[1], b[1]) + FMul(a[2], b[2])

Cross(a, b) == FMul(a[1], b[2]) - FMul(a[2], b[1])

GetRevPerpendicular(v) == <<-v[2], v[1]>>

GetFwdPerpendicular(v) == <<v[2], -v[1]>>

\* Transform(v, A) = A * v
Transform(v, A) ==
    <<FMul(A.ex[1], v[1]) + FMul(A.ey[1], v[2]),
      FMul(A.ex[2], v[1]) + FMul(A.ey[2], v[2])>>

\* Invert(A): zero determinant gives the zero-scaled adjugate
Invert(A) ==
    LET a == A.ex[1]
        b == A.ey[1]
        c == A.ex[2]
        d == A.ey[2]
        det == FMul(a, d) - FMul(b, c)
        idet == IF det # 0 THEN FDiv(Unit, det) ELSE 0
    IN [ex |-> <<FMul(idet, d), -FMul(idet, c)>>,
        ey |-> <<-FMul(idet, b), FMul(idet, a)>>]

\* Velocity{linear, angular}
Velocity(l, w) == [linear |-> l, angular |-> w]

VelAdd(u, v) == [linear |-> VAdd(u.linear, v.linear), angular |-> u.angular + v.angular]

VelSub(u, v) == [linear |-> VSub(u.linear, v.linear), angular |-> u.angular - v.angular]

VelNeg(u) == [linear |-> VNeg(u.linear), angular |-> -u.angular]

\* velocity of B's contact point relative to A's contact point
GetContactRelVelocity(velA, rA, velB, rB) ==
    VSub(VAdd(velB.linear, VScale(velB.angular, GetRevPerpendicular(rB))),
         VAdd(velA.linear, VScale(velA.angular, GetRevPerpendicular(rA))))

(***************************************************************************)
(* VelocityConstraint: the record the solver works on.  Built once per     *)
(* step from the manifold and the bodies (effective masses, the 2x2 block  *)
(* K of a 2-point constraint and its inverse).                             *)
(***************************************************************************)
\* 1 / (invMassA + invMassB + invIA*(rA x d)^2 + invIB*(rB x d)^2), 0 when that sum is 0
EffectiveMass(rA, rB, d, invMA, invMB, invIA, invIB) ==
    LET rnA == Cross(rA, d)
        rnB == Cross(rB, d)
        k == invMA + invMB + FMul(invIA, FMul(rnA, rnA)) + FMul(invIB, FMul(rnB, rnB))
    IN IF k > 0 THEN FDiv(Unit, k) ELSE 0

\* K[i,j] = invMA + invMB + invIA*(rAi x n)(rAj x n) + invIB*(rBi x n)(rBj x n)
KEntry(rAi, rBi, rAj, rBj, n, invMA, invMB, invIA, invIB) ==
    invMA + invMB + FMul(invIA, FMul(Cross(rAi, n), Cross(rAj, n)))
                  + FMul(invIB, FMul(Cross(rBi, n), Cross(rBj, n)))

\* K is kept only when it is well conditioned: k11^2 < 1000 * det(K)
KMaxConditionNumber == 1000

KWellConditioned(K) ==
    LET k11 == K.ex[1]
        det == FMul(K.ex[1], K.ey[2]) - FMul(K.ey[1], K.ex[2])
    IN FMul(k11, k11) < KMaxConditionNumber * det

VCPoint(rA, rB, n, t, bias, nImp, tImp, invMA, invMB, invIA, invIB) ==
    [rA |-> rA, rB |-> rB,
     normalMass |-> EffectiveMass(rA, rB, n, invMA, invMB, invIA, invIB),
     tangentMass |-> EffectiveMass(rA, rB, t, invMA, invMB, invIA, invIB),
     velocityBias |-> bias,
     normalImpulse |-> nImp,
     tangentImpulse |-> tImp]

MakeBody(vel, invM, invI) == [vel |-> vel, invMass |-> invM, invRotInertia |-> invI]

\* the constraint of `count` points; rs[i] = <<rA, rB>> of point i
MakeVC(count, n, friction, tangentSpeed, bodyA, bodyB, rs, bias, nImp, tImp) ==
    LET t == GetFwdPerpendicular(n)
        iMA == bodyA.invMass
        iMB == bodyB.invMass
        iIA == bodyA.invRotInertia
        iIB == bodyB.invRotInertia
        K == IF count = 2
             THEN [ex |-> <<KEntry(rs[0][1], rs[0][2], rs[0][1], rs[0][2], n, iMA, iMB, iIA, iIB),
                            KEntry(rs[1][1], rs[1][2], rs[0][1], rs[0][2], n, iMA, iMB, iIA, iIB)>>,
                   ey |-> <<KEntry(rs[0][1], rs[0][2], rs[1][1], rs[1][2], n, iMA, iMB, iIA, iIB),
                            KEntry(rs[1][1], rs[1][2], rs[1][1], rs[1][2], n, iMA, iMB, iIA, iIB)>>]
             ELSE [ex |-> <<0, 0>>, ey |-> <<0, 0>>]
    IN [count |-> count, normal |-> n, tangent |-> t,
        friction |-> friction, tangentSpeed |-> tangentSpeed,
        bodyA |-> bodyA, bodyB |-> bodyB,
        points |-> [i \in 0..(count - 1) |->
                      VCPoint(rs[i][1], rs[i][2], n, t, bias, nImp, tImp, iMA, iMB, iIA, iIB)],
        K |-> K,
        normalMass |-> Invert(K),
        kValid |-> (count = 2 /\ KWellConditioned(K))]

GetNormalImpulses(v) == <<v.points[0].normalImpulse, v.points[1].normalImpulse>>

SetNormalImpulses(v, imp) ==
    [v EXCEPT !.points[0].normalImpulse = imp[1], !.points[1].normalImpulse = imp[2]]

GetNormalMassAtPoint(v, i) == v.points[i].normalMass

(***************************************************************************)
(* ContactSolver.cpp: per-point solves.                                    *)
(***************************************************************************)
TangentClampMutant(v, i, lambda) == v.points[i].tangentImpulse + lambda

\* accumulated tangent impulse clamped to +-friction * normalImpulse
TangentClamp(v, i, lambda) ==
    LET maxImpulse == FMul(v.friction, v.points[i].normalImpulse)
    IN Clamp(v.points[i].tangentImpulse + lambda, -maxImpulse, maxImpulse)

\* ImpulseChange of the tangent constraint at point i
SolveTangentPoint(v, i) ==
    LET direction == v.tangent
        vcp == v.points[i]
        dv == GetContactRelVelocity(v.bodyA.vel, vcp.rA, v.bodyB.vel, vcp.rB)
        directionalVel == v.tangentSpeed - Dot(dv, direction)
        lambda == FMul(vcp.tangentMass, directionalVel)
        oldImpulse == vcp.tangentImpulse
        newImpulse == TangentClamp(v, i, lambda)
    IN [magnitude |-> newImpulse - oldImpulse, direction |-> direction]

\* accumulated normal impulse clamped at zero
NormalClampMutant(oldImpulse, lambda) == oldImpulse - lambda

NormalClamp(oldImpulse, lambda) == Max(oldImpulse - lambda, 0)

\* ImpulseChange of the normal constraint at point i
SolveNormalPoint(v, i) ==
    LET direction == v.normal
        vcp == v.points[i]
        dv == GetContactRelVelocity(v.bodyA.vel, vcp.rA, v.bodyB.vel, vcp.rB)
        directionalVel == Dot(dv, direction)
        lambda == FMul(vcp.normalMass, directionalVel - vcp.velocityBias)
        oldImpulse == vcp.normalImpulse
        newImpulse == NormalClamp(oldImpulse, lambda)
    IN [magnitude |-> newImpulse - oldImpulse, direction |-> direction]

ApplyPointImpulseMutant(v, i, solution) ==
    LET P == VScale(solution.magnitude, solution.direction)
        vcp == v.points[i]
    IN [v EXCEPT
          !.bodyA.vel = VelAdd(@, Velocity(VScale(v.bodyA.invMass, P),
                                           FMul(v.bodyA.invRotInertia, Cross(vcp.rA, P)))),
          !.bodyB.vel = VelAdd(@, Velocity(VScale(v.bodyB.invMass, P),
                                           FMul(v.bodyB.invRotInertia, Cross(vcp.rB, P))))]

\* the bodies' velocities after impulse P = magnitude * direction at point i
ApplyPointImpulse(v, i, solution) ==
    LET P == VScale(solution.magnitude, solution.direction)
        vcp == v.points[i]
    IN [v EXCEPT
          !.bodyA.vel = VelSub(@, Velocity(VScale(v.bodyA.invMass, P),
                                           FMul(v.bodyA.invRotInertia, Cross(vcp.rA, P)))),
          !.bodyB.vel = VelAdd(@, Velocity(VScale(v.bodyB.invMass, P),
                                           FMul(v.bodyB.invRotInertia, Cross(vcp.rB, P))))]

\* one case of the switch in SolveTangentConstraint(vc)
TangentCase(v, i) ==
    LET solution == SolveTangentPoint(v, i)
        w == ApplyPointImpulse(v, i, solution)
    IN [vc |-> [w EXCEPT !.points[i].tangentImpulse = v.points[i].tangentImpulse + solution.magnitude],
        inc |-> Abs(solution.magnitude)]

\* one case of the switch in SeqSolveNormalConstraint(vc)
SeqNormalCase(v, i) ==
    LET solution == SolveNormalPoint(v, i)
        w == ApplyPointImpulse(v, i, solution)
    IN [vc |-> [w EXCEPT !.points[i].normalImpulse = v.points[i].normalImpulse + solution.magnitude],
        inc |-> Abs(solution.magnitude)]

(***************************************************************************)
(* ContactSolver.cpp: the block solver of a 2-point constraint.            *)
(***************************************************************************)
\* velocity changes (A, B) for the incremental impulses along the normal
ApplyImpulses(v, impulses) ==
    LET normal == v.normal
        P0 == VScale(impulses[1], normal)
        P1 == VScale(impulses[2], normal)
        P == VAdd(P0, P1)
    IN [vel_a |-> VelNeg(Velocity(VScale(v.bodyA.invMass, P),
                    FMul(v.bodyA.invRotInertia,
                         Cross(v.points[0].rA, P0) + Cross(v.points[1].rA, P1)))),
        vel_b |-> Velocity(VScale(v.bodyB.invMass, P),
                    FMul(v.bodyB.invRotInertia,
                         Cross(v.points[0].rB, P0) + Cross(v.points[1].rB, P1)))]

\* the constraint after the new accumulated impulses are installed
BlockSolveUpdate(v, newImpulses) ==
    LET delta_v == ApplyImpulses(v, VSub(newImpulses, GetNormalImpulses(v)))
        w == [v EXCEPT !.bodyA.vel = VelAdd(@, delta_v.vel_a),
                       !.bodyB.vel = VelAdd(@, delta_v.vel_b)]
    IN SetNormalImpulses(w, newImpulses)

\* a case's outcome: valid = FALSE stands for the invalid (NaN) return value
CaseResult(valid, v, ret) == [valid |-> valid, vc |-> v, ret |-> ret]

Case1AcceptStrict(x) == x[1] > 0 /\ x[2] > 0

Case1Accept(x) == x[1] >= 0 /\ x[2] >= 0

BlockSolveNormalCase1(v, b_prime) ==
    LET newImpulses == VNeg(Transform(b_prime, v.normalMass))
    IN IF Case1Accept(newImpulses)
       THEN CaseResult(TRUE, BlockSolveUpdate(v, newImpulses), Max(newImpulses[1], newImpulses[2]))
       ELSE CaseResult(FALSE, v, 0)

BlockSolveNormalCase2(v, b_prime) ==
    LET newImpulses == <<FMul(-GetNormalMassAtPoint(v, 0), b_prime[1]), 0>>
        vn2 == FMul(v.K.ex[2], newImpulses[1]) + b_prime[2]
    IN IF newImpulses[1] >= 0 /\ vn2 >= 0
       THEN CaseResult(TRUE, BlockSolveUpdate(v, newImpulses), Max(newImpulses[1], newImpulses[2]))
       ELSE CaseResult(FALSE, v, 0)

BlockSolveNormalCase3(v, b_prime) ==
    LET newImpulses == <<0, FMul(-GetNormalMassAtPoint(v, 1), b_prime[2])>>
        vn1 == FMul(v.K.ey[1], newImpulses[2]) + b_prime[1]
    IN IF newImpulses[2] >= 0 /\ vn1 >= 0
       THEN CaseResult(TRUE, BlockSolveUpdate(v, newImpulses), Max(newImpulses[1], newImpulses[2]))
       ELSE CaseResult(FALSE, v, 0)

BlockSolveNormalCase4(v, b_prime) ==
    LET newImpulses == <<0, 0>>
    IN IF b_prime[1] >= 0 /\ b_prime[2] >= 0
       THEN CaseResult(TRUE, BlockSolveUpdate(v, newImpulses), Max(newImpulses[1], newImpulses[2]))
       ELSE CaseResult(FALSE, v, 0)

\* b' = b - K * a, b = vn - velocityBias
BPrime(v) ==
    LET dv0 == GetContactRelVelocity(v.bodyA.vel, v.points[0].rA, v.bodyB.vel, v.points[0].rB)
        dv1 == GetContactRelVelocity(v.bodyA.vel, v.points[1].rA, v.bodyB.vel, v.points[1].rB)
        vn1 == Dot(dv0, v.normal)
        vn2 == Dot(dv1, v.normal)
        b == <<vn1 - v.points[0].velocityBias, vn2 - v.points[1].velocityBias>>
    IN VSub(b, Transform(GetNormalImpulses(v), v.K))

BlockSolveNormalConstraintMutant(v) ==
    LET b_prime == BPrime(v)
        c1 == BlockSolveNormalCase1(v, b_prime)
        c2 == BlockSolveNormalCase2(v, b_prime)
        c3 == BlockSolveNormalCase3(v, b_prime)
    IN IF c1.valid THEN [case |-> 1, vc |-> c1.vc, ret |-> c1.ret]
       ELSE IF c2.valid THEN [case |-> 2, vc |-> c2.vc, ret |-> c2.ret]
       ELSE IF c3.valid THEN [case |-> 3, vc |-> c3.vc, ret |-> c3.ret]
       ELSE [case |-> 4, vc |-> BlockSolveUpdate(v, <<0, 0>>), ret |-> 0]

\* the cases in the order they are tried; case 0 = none verified (give up, return 0)
BlockSolveNormalConstraint(v) ==
    LET b_prime == BPrime(v)
        c1 == BlockSolveNormalCase1(v, b_prime)
        c2 == BlockSolveNormalCase2(v, b_prime)
        c3 == BlockSolveNormalCase3(v, b_prime)
        c4 == BlockSolveNormalCase4(v, b_prime)
    IN IF c1.valid THEN [case |-> 1, vc |-> c1.vc, ret |-> c1.ret]
       ELSE IF c2.valid THEN [case |-> 2, vc |-> c2.vc, ret |-> c2.ret]
       ELSE IF c3.valid THEN [case |-> 3, vc |-> c3.vc, ret |-> c3.ret]
       ELSE IF c4.valid THEN [case |-> 4, vc |-> c4.vc, ret |-> c4.ret]
       ELSE [case |-> 0, vc |-> v, ret |-> 0]

\* SolveNormalConstraint(vc): sequential for one point or an invalid K
UsesSequential(v) == v.count = 1 \/ ~v.kValid

(***************************************************************************)
(* Time of impact: numbers.                                                *)
(* Lengths are integers counted in sixteenths of LinearSlop.  Time         *)
(* factors, angles (radians) and the components of unit vectors and        *)
(* rotations are fixed-point with One as 1.0.                              *)
(***************************************************************************)
\* float_t 1.0 of a time factor, an angle or a unit-vector component
One == 256

\* LinearSlop, in length units
LinearSlop == 16

MaxTOIIterations == 20

MaxTOIRootIterCount == 50

MaxPolygonVertices == 8

\* a * b with one factor a length or a fixed-point number and the other fixed-point
QMul(a, b) == Sgn(a * b) * (Abs(a * b) \div One)

\* the integer square root of n >= 0, searched in lo..hi
RECURSIVE SqrtSearch(_, _, _)
SqrtSearch(n, lo, hi) ==
    IF lo >= hi THEN lo
    ELSE LET mid == (lo + hi + 1) \div 2
         IN IF mid * mid <= n THEN SqrtSearch(n, mid, hi) ELSE SqrtSearch(n, lo, mid - 1)

Sqrt(n) == SqrtSearch(n, 0, 46340)

Square(x) == x * x

\* squared length of a vector of lengths
GetLengthSquared(v) == Square(v[1]) + Square(v[2])

DistanceSquared(a, b) == GetLengthSquared(VSub(a, b))

\* the unit vector (components scaled by One) along v; the zero vector for v = 0
Normalize(v) ==
    LET len == Sqrt(GetLengthSquared(v))
    IN IF len = 0 THEN <<0, 0>>
       ELSE <<Sgn(v[1]) * ((Abs(v[1]) * One) \div len), Sgn(v[2]) * ((Abs(v[2]) * One) \div len)>>

\* Dot of a vector of lengths with a unit vector: a length
DotAxis(v, axis) == QMul(v[1], axis[1]) + QMul(v[2], axis[2])

\* 2 * pi and pi
TwoPi == (One * 6283) \div 1000

Pi == TwoPi \div 2

\* floor(a / b) for b > 0
FloorDiv(a, b) == IF a >= 0 THEN a \div b ELSE -((-a + b - 1) \div b)

\* sine and cosine of an angle in [-pi/2, pi/2], by their series up to the fifth / fourth power
SinSeries(a) ==
    LET a2 == QMul(a, a)
        a3 == QMul(a2, a)
        a5 == QMul(a3, a2)
    IN a - a3 \div 6 + a5 \div 120

CosSeries(a) ==
    LET a2 == QMul(a, a)
        a4 == QMul(a2, a2)
    IN One - a2 \div 2 + a4 \div 24

\* the angle brought into [-pi, pi)
ReduceAngle(a) == a - TwoPi * FloorDiv(a + Pi, TwoPi)

Sin(a) ==
    LET r == ReduceAngle(a)
    IN IF 2 * r > Pi THEN SinSeries(Pi - r)
       ELSE IF 2 * r < -Pi THEN SinSeries(-Pi - r)
       ELSE SinSeries(r)

Cos(a) ==
    LET r == ReduceAngle(a)
    IN IF 2 * r > Pi THEN -CosSeries(Pi - r)
       ELSE IF 2 * r < -Pi THEN -CosSeries(-Pi - r)
       ELSE CosSeries(r)

\* Rot: the rotation by an angle, as its sine and cosine
Rot(angle) == [s |-> Sin(angle), c |-> Cos(angle)]

\* Mul(q, v): v rotated by q
RotMul(q, v) == <<QMul(q.c, v[1]) - QMul(q.s, v[2]), QMul(q.s, v[1]) + QMul(q.c, v[2])>>

\* MulT(q, v): v rotated by the inverse of q
RotMulT(q, v) == <<QMul(q.c, v[1]) + QMul(q.s, v[2]), QMul(q.c, v[2]) - QMul(q.s, v[1])>>

\* Mul(xf, v) = q * v + p
XfMul(xf, v) == VAdd(RotMul(xf.q, v), xf.p)

\* Sweep: c0, c1 centres, a0, a1 angles, localCenter
MakeSweep(c0, c1, a0, a1, lc) == [c0 |-> c0, c1 |-> c1, a0 |-> a0, a1 |-> a1, localCenter |-> lc]

\* GetAnglesNormalized(sweep): a0 brought into [0, 2 pi), a1 shifted alike
GetAnglesNormalized(sweep) ==
    LET d == TwoPi * FloorDiv(sweep.a0, TwoPi)
    IN [sweep EXCEPT !.a0 = @ - d, !.a1 = @ - d]

\* GetTransform(sweep, t): position lerp(c0, c1, t) - q(a) * localCenter, angle lerp(a0, a1, t)
GetTransform(sweep, t) ==
    LET c == VAdd(sweep.c0, <<QMul(sweep.c1[1] - sweep.c0[1], t), QMul(sweep.c1[2] - sweep.c0[2], t)>>)
        angle == sweep.a0 + QMul(sweep.a1 - sweep.a0, t)
        q == Rot(angle)
    IN [p |-> VSub(c, RotMul(q, sweep.localCenter)), q |-> q]

(***************************************************************************)
(* DistanceProxy: vertices (a sequence indexed from 0) and a radius.       *)
(***************************************************************************)
MakeProxy(vs, r) == [vertices |-> vs, radius |-> r]

GetVertexCount(proxy) == Cardinality(DOMAIN proxy.vertices)

GetVertex(proxy, i) == proxy.vertices[i]

\* the first index whose vertex has the largest dot product with d
GetSupportIndex(proxy, d) ==
    LET val(i) == DotAxis(proxy.vertices[i], d)
        idx == DOMAIN proxy.vertices
    IN CHOOSE i \in idx :
         /\ \A j \in idx : val(j) <= val(i)
         /\ \A j \in idx : j < i => val(j) < val(i)

(***************************************************************************)
(* Distance: the closest points of two transformed proxies and the simplex *)
(* cache that names the vertices they lie on.  Proxies here have one or    *)
(* two vertices (a disk, or a capsule / edge).                             *)
(***************************************************************************)
\* SimplexCache: count and the index pairs (position k of the code is k + 1 here)
MakeCache(ia, ib) == [count |-> Len(ia), indexA |-> ia, indexB |-> ib]

GetIndexA(cache, k) == cache.indexA[k + 1]

GetIndexB(cache, k) == cache.indexB[k + 1]

\* the point of segment [p, q] closest to x, and where it lies: 0 at p, 1 at q, 2 inside
ClosestOnSegment(p, q, x) ==
    LET d == VSub(q, p)
        num == (x[1] - p[1]) * d[1] + (x[2] - p[2]) * d[2]
        den == d[1] * d[1] + d[2] * d[2]
    IN IF num <= 0 THEN [pt |-> p, at |-> 0]
       ELSE IF num >= den THEN [pt |-> q, at |-> 1]
       ELSE [pt |-> <<p[1] + Sgn(d[1]) * ((Abs(d[1]) * num) \div den),
                      p[2] + Sgn(d[2]) * ((Abs(d[2]) * num) \div den)>>,
             at |-> 2]

\* side of point c relative to the line from a to b: -1, 0, 1
Orient(a, b, c) == Sgn((b[1] - a[1]) * (c[2] - a[2]) - (b[2] - a[2]) * (c[1] - a[1]))

\* the open segments a0-a1 and b0-b1 cross
SegmentsCross(a0, a1, b0, b1) ==
    /\ Orient(a0, a1, b0) * Orient(a0, a1, b1) < 0
    /\ Orient(b0, b1, a0) * Orient(b0, b1, a1) < 0

\* candidate closest pairs: vertex i of `from` against the whole of `onto`
\* (swap = TRUE when `from` is proxy B)
VertexCandidates(from, onto, swap) ==
    LET n == Cardinality(DOMAIN from)
        cand(i) ==
          LET x == from[i]
              c == IF Cardinality(DOMAIN onto) = 1
                   THEN [pt |-> onto[0], at |-> 0]
                   ELSE ClosestOnSegment(onto[0], onto[1], x)
              iFrom == IF c.at = 2 THEN <<i, i>> ELSE <<i>>
              iOnto == IF c.at = 2 THEN <<0, 1>> ELSE <<c.at>>
          IN IF swap
             THEN [a |-> c.pt, b |-> x, cache |-> MakeCache(iOnto, iFrom)]
             ELSE [a |-> x, b |-> c.pt, cache |-> MakeCache(iFrom, iOnto)]
    IN [k \in 1..n |-> cand(k - 1)]

\* the first candidate of the sequence with the least squared distance
RECURSIVE BestCandidate(_, _)
BestCandidate(cs, k) ==
    IF k = Len(cs) THEN cs[k]
    ELSE LET rest == BestCandidate(cs, k + 1)
         IN IF DistanceSquared(cs[k].a, cs[k].b) <= DistanceSquared(rest.a, rest.b)
            THEN cs[k] ELSE rest

\* DistanceOutput: witness points a (on A) and b (on B), and the cache
Distance(proxyA, xfA, proxyB, xfB) ==
    LET wa == [i \in DOMAIN proxyA.vertices |-> XfMul(xfA, proxyA.vertices[i])]
        wb == [i \in DOMAIN proxyB.vertices |-> XfMul(xfB, proxyB.vertices[i])]
        two == Cardinality(DOMAIN wa) = 2 /\ Cardinality(DOMAIN wb) = 2
    IN IF two /\ SegmentsCross(wa[0], wa[1], wb[0], wb[1])
       THEN [a |-> wa[0], b |-> wa[0], cache |-> MakeCache(<<0, 1, 0>>, <<0, 0, 1>>)]
       ELSE BestCandidate(VertexCandidates(wa, wb, FALSE) \o VertexCandidates(wb, wa, TRUE), 1)

FcnTypeMutant(cache) ==
    IF cache.count = 1 THEN "points"
    ELSE IF cache.count = 2 /\ GetIndexA(cache, 0) = GetIndexA(cache, 1) THEN "faceB"
    ELSE "faceA"

(***************************************************************************)
(* TimeOfImpact.cpp: SeparationFunction.                                   *)
(***************************************************************************)
\* m_type
FcnType(cache) ==
    IF cache.count # 1
    THEN (IF GetIndexA(cache, 0) = GetIndexA(cache, 1) THEN "faceB" ELSE "faceA")
    ELSE "points"

\* SeparationFunction(cache, proxyA, sweepA, proxyB, sweepB, t1)
SeparationFunction(cache, proxyA, sweepA, proxyB, sweepB, t1) ==
    LET type == FcnType(cache)
        xfA == GetTransform(sweepA, t1)
        xfB == GetTransform(sweepB, t1)
        base == [proxyA |-> proxyA, proxyB |-> proxyB, sweepA |-> sweepA, sweepB |-> sweepB,
                 type |-> type, axis |-> <<0, 0>>, localPoint |-> <<0, 0>>]
    IN CASE type = "points" ->
              LET pointA == XfMul(xfA, GetVertex(proxyA, GetIndexA(cache, 0)))
                  pointB == XfMul(xfB, GetVertex(proxyB, GetIndexB(cache, 0)))
              IN [base EXCEPT !.axis = Normalize(VSub(pointB, pointA))]
         [] type = "faceB" ->
              LET localPointB1 == GetVertex(proxyB, GetIndexB(cache, 0))
                  localPointB2 == GetVertex(proxyB, GetIndexB(cache, 1))
                  axis == Normalize(GetFwdPerpendicular(VSub(localPointB2, localPointB1)))
                  normal == RotMul(xfB.q, axis)
                  localPoint == <<(localPointB1[1] + localPointB2[1]) \div 2,
                                  (localPointB1[2] + localPointB2[2]) \div 2>>
                  pointB == XfMul(xfB, localPoint)
                  pointA == XfMul(xfA, GetVertex(proxyA, GetIndexA(cache, 0)))
                  s == DotAxis(VSub(pointA, pointB), normal)
              IN [base EXCEPT !.axis = IF s < 0 THEN VNeg(axis) ELSE axis,
                              !.localPoint = localPoint]
         [] type = "faceA" ->
              LET localPointA1 == GetVertex(proxyA, GetIndexA(cache, 0))
                  localPointA2 == GetVertex(proxyA, GetIndexA(cache, 1))
                  axis == Normalize(GetFwdPerpendicular(VSub(localPointA2, localPointA1)))
                  normal == RotMul(xfA.q, axis)
                  localPoint == <<(localPointA1[1] + localPointA2[1]) \div 2,
                                  (localPointA1[2] + localPointA2[2]) \div 2>>
                  pointA == XfMul(xfA, localPoint)
                  pointB == XfMul(xfB, GetVertex(proxyB, GetIndexB(cache, 0)))
                  s == DotAxis(VSub(pointB, pointA), normal)
              IN [base EXCEPT !.axis = IF s < 0 THEN VNeg(axis) ELSE axis,
                              !.localPoint = localPoint]

\* IndexPair::InvalidIndex, static_cast<size_type>(-1)
InvalidIndex == -1

MakeSeparation(ia, ib, d) == [indexPair |-> [a |-> ia, b |-> ib], distance |-> d]

FindMinSeparationForPoints(fcn, xfA, xfB) ==
    LET indexA == GetSupportIndex(fcn.proxyA, RotMulT(xfA.q, fcn.axis))
        indexB == GetSupportIndex(fcn.proxyB, RotMulT(xfB.q, VNeg(fcn.axis)))
        pointA == XfMul(xfA, GetVertex(fcn.proxyA, indexA))
        pointB == XfMul(xfB, GetVertex(fcn.proxyB, indexB))
    IN MakeSeparation(indexA, indexB, DotAxis(VSub(pointB, pointA), fcn.axis))

FindMinSeparationForFaceA(fcn, xfA, xfB) ==
    LET normal == RotMul(xfA.q, fcn.axis)
        pointA == XfMul(xfA, fcn.localPoint)
        indexB == GetSupportIndex(fcn.proxyB, RotMulT(xfB.q, VNeg(normal)))
        pointB == XfMul(xfB, GetVertex(fcn.proxyB, indexB))
    IN MakeSeparation(InvalidIndex, indexB, DotAxis(VSub(pointB, pointA), normal))

FindMinSeparationForFaceB(fcn, xfA, xfB) ==
    LET normal == RotMul(xfB.q, fcn.axis)
        indexA == GetSupportIndex(fcn.proxyA, RotMulT(xfA.q, VNeg(normal)))
        pointA == XfMul(xfA, GetVertex(fcn.proxyA, indexA))
        pointB == XfMul(xfB, fcn.localPoint)
    IN MakeSeparation(indexA, InvalidIndex, DotAxis(VSub(pointA, pointB), normal))

FindMinSeparation(fcn, t) ==
    LET xfA == GetTransform(fcn.sweepA, t)
        xfB == GetTransform(fcn.sweepB, t)
    IN CASE fcn.type = "points" -> FindMinSeparationForPoints(fcn, xfA, xfB)
         [] fcn.type = "faceA" -> FindMinSeparationForFaceA(fcn, xfA, xfB)
         [] fcn.type = "faceB" -> FindMinSeparationForFaceB(fcn, xfA, xfB)

EvaluateForPoints(fcn, indexPair, xfA, xfB) ==
    LET pointA == XfMul(xfA, GetVertex(fcn.proxyA, indexPair.a))
        pointB == XfMul(xfB, GetVertex(fcn.proxyB, indexPair.b))
    IN DotAxis(VSub(pointB, pointA), fcn.axis)

EvaluateForFaceA(fcn, indexPair, xfA, xfB) ==
    LET normal == RotMul(xfA.q, fcn.axis)
        pointA == XfMul(xfA, fcn.localPoint)
        pointB == XfMul(xfB, GetVertex(fcn.proxyB, indexPair.b))
    IN DotAxis(VSub(pointB, pointA), normal)

EvaluateForFaceB(fcn, indexPair, xfA, xfB) ==
    LET normal == RotMul(xfB.q, fcn.axis)
        pointB == XfMul(xfB, fcn.localPoint)
        pointA == XfMul(xfA, GetVertex(fcn.proxyA, indexPair.a))
    IN DotAxis(VSub(pointA, pointB), normal)

Evaluate(fcn, indexPair, t) ==
    LET xfA == GetTransform(fcn.sweepA, t)
        xfB == GetTransform(fcn.sweepB, t)
    IN CASE fcn.type = "points" -> EvaluateForPoints(fcn, indexPair, xfA, xfB)
         [] fcn.type = "faceA" -> EvaluateForFaceA(fcn, indexPair, xfA, xfB)
         [] fcn.type = "faceB" -> EvaluateForFaceB(fcn, indexPair, xfA, xfB)

(***************************************************************************)
(* State of the velocity solver.                                           *)
(*   vc      the VelocityConstraint (with both bodies' velocities)         *)
(*   vpc     position inside SolveVelocityConstraint                       *)
(*   vidx    the switch case (point index) the current pass executes next  *)
(*   vmax    maxIncImpulse of the pass in progress                         *)
(*   vacc    maxIncImpulse of SolveVelocityConstraint                      *)
(*   vcase   block-solver case applied by the current call (0 none,        *)
(*           -1 the block solver did not run)                              *)
(*   ventry  vc as it was when the current call was entered                *)
(*   vmid    vc as it was when the normal pass of the current call began   *)
(*   vret    value returned by the last call                               *)
(*   vcalls  number of completed calls                                     *)
(***************************************************************************)
VARIABLES vc, vpc, vidx, vmax, vacc, vcase, ventry, vmid, vret, vcalls

vcVars == <<vc, vpc, vidx, vmax, vacc, vcase, ventry, vmid, vret, vcalls>>

\* the state of the time-of-impact search, described where its actions are
VARIABLES toiIn, toi, toiStats, toiHist

toiVars == <<toiIn, toi, toiStats, toiHist>>

\* State of the position solver.
\*   bodyConstraints  the BodyConstraint of every body, by its name
\*   posIn     the arguments of SolvePositionConstraints: the constraints, the
\*             configuration and, for the TOI variant, bodiesA and bodiesB
\*   posRun    the locals of SolvePositionConstraints and the position in it (pc), the
\*             bodies as they were on entry, and the last SolvePositionConstraint made
\*   posCalls  number of completed calls
VARIABLES bodyConstraints, posIn, posRun, posCalls

posVars == <<bodyConstraints, posIn, posRun, posCalls>>

\* State of the stack allocator.
\*   stack        the members m_index, m_allocation, m_maxAllocation, m_entryCount and
\*                the entries in use of m_entries
\*   heap         the blocks b2Alloc has handed out and b2Free has not taken back
\*   outstanding  the blocks Allocate returned to the caller that the caller has not
\*                yet passed to Free, oldest first, each with its size
\*   stackPc      "live", or how the destructor ended
VARIABLES stack, heap, outstanding, stackPc

stackVars == <<stack, heap, outstanding, stackPc>>

\* State of a Manifold object under construction and AddPoint.
VARIABLES theManifold

manifoldVars == <<theManifold>>

\* State of a VertexSet object.
\*   vertexSet  the members m_elements and m_minSepSquared
\*   vsLast     the last call made on it: which, its argument, what it returned and
\*              m_elements as they were before it
VARIABLES vertexSet, vsLast

vertexSetVars == <<vertexSet, vsLast>>

\* State of a SeparationFunction object being constructed from a SimplexCache: the cache
\* given to the constructor and m_type ("none" before the constructor has run)
VARIABLES sepFcn

sepFcnVars == <<sepFcn>>

vars == <<vcVars, toiVars, posVars, stackVars, manifoldVars, vertexSetVars, sepFcnVars>>

exceptVC == <<toiVars, posVars, stackVars, manifoldVars, vertexSetVars, sepFcnVars>>

exceptTOI == <<vcVars, posVars, stackVars, manifoldVars, vertexSetVars, sepFcnVars>>

exceptPos == <<vcVars, toiVars, stackVars, manifoldVars, vertexSetVars, sepFcnVars>>

exceptStack == <<vcVars, toiVars, posVars, manifoldVars, vertexSetVars, sepFcnVars>>

exceptManifold == <<vcVars, toiVars, posVars, stackVars, vertexSetVars, sepFcnVars>>

exceptVertexSet == <<vcVars, toiVars, posVars, stackVars, manifoldVars, sepFcnVars>>

exceptSepFcn == <<vcVars, toiVars, posVars, stackVars, manifoldVars, vertexSetVars>>

\* initial velocity components of body B
SpeedValues == {k * (Unit \div 2) : k \in (-MaxSpeed)..MaxSpeed}

\* constraints the solver is handed: body A below body B, normal from A to B,
\* contact points on the line between them
InitialConstraints ==
    { MakeVC(count, <<0, Unit>>, friction, 0,
             MakeBody(Velocity(<<0, 0>>, 0), invMA, invMA),
             MakeBody(Velocity(<<vx, vy>>, w), Unit, invIB),
             IF count = 1
             THEN [i \in {0} |-> <<<<0, Unit>>, <<0, -Unit>>>>]
             ELSE [i \in {0, 1} |-> IF i = 0 THEN <<<<-Unit, Unit>>, <<-Unit, -Unit>>>>
                                             ELSE <<<<Unit, Unit>>, <<Unit, -Unit>>>>],
             bias, nImp, 0) :
        count \in {1, 2}, friction \in {0, Unit \div 2}, invMA \in {0, Unit},
        invIB \in {0, Unit}, vx \in SpeedValues, vy \in SpeedValues,
        w \in {-Unit, 0, Unit}, bias \in {0, Unit \div 4}, nImp \in {0, Unit} }

VCInit ==
    /\ vc \in InitialConstraints
    /\ vpc = "idle"
    /\ vidx = 0
    /\ vmax = 0
    /\ vacc = 0
    /\ vcase = -1
    /\ ventry = vc
    /\ vmid = vc
    /\ vret = 0
    /\ vcalls = 0

\* SolveVelocityConstraint entered: maxIncImpulse = 0, the tangent pass starts
\* at the switch case of the point count
VCCall ==
    /\ UNCHANGED exceptVC
    /\ vpc = "idle"
    /\ vcalls < MaxCalls
    /\ vpc' = "tangent"
    /\ vidx' = vc.count - 1
    /\ vmax' = 0
    /\ vacc' = 0
    /\ vcase' = -1
    /\ ventry' = vc
    /\ UNCHANGED <<vc, vmid, vret, vcalls>>

VCTangentStepMutant ==
    /\ UNCHANGED exceptVC
    /\ vpc = "tangent"
    /\ LET solution == SolveTangentPoint([vc EXCEPT !.bodyA.vel = ventry.bodyA.vel,
                                                    !.bodyB.vel = ventry.bodyB.vel], vidx)
           w == ApplyPointImpulse(vc, vidx, solution)
           r == [vc |-> [w EXCEPT !.points[vidx].tangentImpulse =
                                      vc.points[vidx].tangentImpulse + solution.magnitude],
                 inc |-> Abs(solution.magnitude)]
       IN /\ vc' = r.vc
          /\ vmax' = IF vidx = 0 THEN 0 ELSE Max(vmax, r.inc)
          /\ IF vidx = 0
             THEN /\ vacc' = Max(vacc, Max(vmax, r.inc))
                  /\ vpc' = IF UsesSequential(vc) THEN "seqnormal" ELSE "blocknormal"
                  /\ vidx' = vc.count - 1
                  /\ vmid' = r.vc
             ELSE /\ vidx' = vidx - 1
                  /\ UNCHANGED <<vacc, vpc, vmid>>
    /\ UNCHANGED <<vcase, ventry, vret, vcalls>>

\* SolveTangentConstraint(vc): case 2 (point 1) falls through to case 1 (point 0)
VCTangentStep ==
    /\ UNCHANGED exceptVC
    /\ vpc = "tangent"
    /\ LET r == TangentCase(vc, vidx)
       IN /\ vc' = r.vc
          /\ vmax' = IF vidx = 0 THEN 0 ELSE Max(vmax, r.inc)
          /\ IF vidx = 0
             THEN /\ vacc' = Max(vacc, Max(vmax, r.inc))
                  /\ vpc' = IF UsesSequential(vc) THEN "seqnormal" ELSE "blocknormal"
                  /\ vidx' = vc.count - 1
                  /\ vmid' = r.vc
             ELSE /\ vidx' = vidx - 1
                  /\ UNCHANGED <<vacc, vpc, vmid>>
    /\ UNCHANGED <<vcase, ventry, vret, vcalls>>

\* SeqSolveNormalConstraint(vc): case 2 (point 1) falls through to case 1 (point 0)
VCSeqNormalStep ==
    /\ UNCHANGED exceptVC
    /\ vpc = "seqnormal"
    /\ LET r == SeqNormalCase(vc, vidx)
       IN /\ vc' = r.vc
          /\ vmax' = IF vidx = 0 THEN 0 ELSE Max(vmax, r.inc)
          /\ IF vidx = 0
             THEN /\ vacc' = Max(vacc, Max(vmax, r.inc))
                  /\ vpc' = "return"
                  /\ UNCHANGED vidx
             ELSE /\ vidx' = vidx - 1
                  /\ UNCHANGED <<vacc, vpc>>
    /\ UNCHANGED <<vcase, ventry, vmid, vret, vcalls>>

\* BlockSolveNormalConstraint(vc)
VCBlockNormalStep ==
    /\ UNCHANGED exceptVC
    /\ vpc = "blocknormal"
    /\ LET r == BlockSolveNormalConstraint(vc)
       IN /\ vc' = r.vc
          /\ vcase' = r.case
          /\ vacc' = Max(vacc, r.ret)
    /\ vpc' = "return"
    /\ UNCHANGED <<vidx, vmax, ventry, vmid, vret, vcalls>>

\* SolveVelocityConstraint returns maxIncImpulse
VCReturn ==
    /\ UNCHANGED exceptVC
    /\ vpc = "return"
    /\ vret' = vacc
    /\ vcalls' = vcalls + 1
    /\ vpc' = "idle"
    /\ UNCHANGED <<vc, vidx, vmax, vacc, vcase, ventry, vmid>>

VCNext == VCCall \/ VCTangentStep \/ VCSeqNormalStep \/ VCBlockNormalStep \/ VCReturn

(***************************************************************************)
(* State of the time-of-impact search.                                     *)
(*   toiIn    the arguments: proxyA, sweepA, proxyB, sweepB, tMax          *)
(*   toi      the locals of TimeOfImpact and the position in it (pc)       *)
(*   toiStats the global counters toiCalls, toiIters, toiMaxIters,         *)
(*            toiRootIters, toiMaxRootIters                                *)
(*   toiHist  the calls completed so far: tMax, the output, and how the    *)
(*            call left the outer loop                                     *)
(***************************************************************************)

\* Number of TimeOfImpact calls made on the same proxies and sweeps.
MaxTOICalls == 2
\* Body B starts and ends its sweep at up to MaxReach strides from body A.
MaxReach == 3

TotalRadius(in) == in.proxyA.radius + in.proxyB.radius

Target(in) == Max(LinearSlop, TotalRadius(in) - 3 * LinearSlop)

Tolerance == LinearSlop \div 4

MaxTarget(in) == Target(in) + Tolerance

MinTarget(in) == Target(in) - Tolerance

TOIOutput(state, t) == [state |-> state, t |-> t]

NoCache == MakeCache(<<>>, <<>>)

NoFcn == [type |-> "none"]

NoSeparation == MakeSeparation(InvalidIndex, InvalidIndex, 0)

\* the locals before the first call
IdleLocals ==
    [pc |-> "idle", output |-> TOIOutput("unknown", 0), sweepA |-> MakeSweep(<<0, 0>>, <<0, 0>>, 0, 0, <<0, 0>>),
     sweepB |-> MakeSweep(<<0, 0>>, <<0, 0>>, 0, 0, <<0, 0>>), t1 |-> 0, iter |-> 0, cache |-> NoCache,
     distanceSquared |-> 0, fcn |-> NoFcn, done |-> FALSE, t2 |-> 0, pushBackIter |-> 0,
     minSeparation |-> NoSeparation, s1 |-> 0, s2 |-> 0, rootIterCount |-> 0, a1 |-> 0, a2 |-> 0,
     t |-> 0, via |-> "none"]

NoStats == [toiCalls |-> 0, toiIters |-> 0, toiMaxIters |-> 0, toiRootIters |-> 0, toiMaxRootIters |-> 0]

\* shapes: a disk (one vertex) or a capsule (two vertices), of radius r
Disk(r) == MakeProxy([i \in {0} |-> <<0, 0>>], r)

CapsuleX(h, r) == MakeProxy([i \in {0, 1} |-> IF i = 0 THEN <<-h, 0>> ELSE <<h, 0>>], r)

CapsuleY(h, r) == MakeProxy([i \in {0, 1} |-> IF i = 0 THEN <<0, -h>> ELSE <<0, h>>], r)

Stride == 12 * LinearSlop

TMaxValues == {One, (3 * One) \div 4, One \div 2}

RestingSweep == MakeSweep(<<0, 0>>, <<0, 0>>, 0, 0, <<0, 0>>)

\* body A rests at the origin; body B sweeps along x, a little or well above A's centre,
\* from k0 strides to the right of it to k1 strides to the left of it, a capsule B either keeping its angle or turning as it goes
SlowInputs ==
    { [proxyA |-> pa, proxyB |-> pb.proxy, sweepA |-> RestingSweep,
       sweepB |-> MakeSweep(<<k0 * Stride, y>>, <<-k1 * Stride, y>>, pb.a0, pb.a1, <<0, 0>>),
       tMax |-> tm] :
        pa \in {Disk(2 * LinearSlop), CapsuleY(4 * LinearSlop, 2 * LinearSlop)},
        pb \in {[proxy |-> Disk(2 * LinearSlop), a0 |-> 0, a1 |-> 0],
                [proxy |-> CapsuleX(4 * LinearSlop, 3 * LinearSlop), a0 |-> 0, a1 |-> 0],
                [proxy |-> CapsuleX(4 * LinearSlop, 3 * LinearSlop), a0 |-> -One \div 4, a1 |-> (3 * One) \div 4]},
        k0 \in 0..MaxReach, k1 \in 0..MaxReach, y \in {LinearSlop \div 2, 3 * LinearSlop},
        tm \in TMaxValues }

\* a disk crossing a resting disk so fast that between two representable times its
\* separation jumps over the whole band of width 2 * Tolerance around the target
FastInputs ==
    { [proxyA |-> Disk(2 * LinearSlop), proxyB |-> Disk(2 * LinearSlop), sweepA |-> RestingSweep,
       sweepB |-> MakeSweep(<<106 * LinearSlop + Tolerance, 0>>,
                            <<106 * LinearSlop + Tolerance - 2 * Tolerance * One, 0>>, 0, 0, <<0, 0>>),
       tMax |-> One] }

InitialInputs == SlowInputs \cup FastInputs

TOIInit ==
    /\ toiIn \in InitialInputs
    /\ toi = IdleLocals
    /\ toiStats = NoStats
    /\ toiHist = <<>>

\* TimeOfImpact entered (lines 238-258); a later call has a tMax no larger than the one before
TOICall ==
    /\ UNCHANGED exceptTOI
    /\ toi.pc = "idle"
    /\ Len(toiHist) < MaxTOICalls
    /\ \E tm \in TMaxValues :
         /\ IF toiHist = <<>> THEN tm = toiIn.tMax ELSE tm <= toiIn.tMax
         /\ toiIn' = [toiIn EXCEPT !.tMax = tm]
         /\ toi' = [IdleLocals EXCEPT !.pc = "outer",
                                      !.output = TOIOutput("unknown", tm),
                                      !.sweepA = GetAnglesNormalized(toiIn.sweepA),
                                      !.sweepB = GetAnglesNormalized(toiIn.sweepB)]
    /\ toiStats' = [toiStats EXCEPT !.toiCalls = @ + 1]
    /\ UNCHANGED toiHist

DistanceCheckMutant(d2, maxT) == IF d2 < 0 THEN "overlapped" ELSE IF d2 < maxT * maxT THEN "touching" ELSE "apart"

DistanceCheckUnsquared(d2, maxT) == IF d2 <= 0 THEN "overlapped" ELSE IF d2 < maxT THEN "touching" ELSE "apart"

\* the two tests on the squared witness distance
DistanceCheck(d2, maxT) == IF d2 <= 0 THEN "overlapped" ELSE IF d2 < Square(maxT) THEN "touching" ELSE "apart"

\* top of the outer loop: the distance query at t1, then the separating axis
TOIOuter ==
    /\ UNCHANGED exceptTOI
    /\ toi.pc = "outer"
    /\ LET transformA == GetTransform(toi.sweepA, toi.t1)
           transformB == GetTransform(toi.sweepB, toi.t1)
           distanceOutput == Distance(toiIn.proxyA, transformA, toiIn.proxyB, transformB)
           distanceSquared == DistanceSquared(distanceOutput.a, distanceOutput.b)
           check == DistanceCheck(distanceSquared, MaxTarget(toiIn))
           seen == [toi EXCEPT !.cache = distanceOutput.cache, !.distanceSquared = distanceSquared]
       IN toi' = CASE check = "overlapped" ->
                        [seen EXCEPT !.output = TOIOutput("overlapped", 0), !.pc = "exit", !.via = "distance"]
                   [] check = "touching" ->
                        [seen EXCEPT !.output = TOIOutput("touching", toi.t1), !.pc = "exit", !.via = "distance"]
                   [] OTHER ->
                        [seen EXCEPT !.fcn = SeparationFunction(distanceOutput.cache, toiIn.proxyA, toi.sweepA,
                                                                toiIn.proxyB, toi.sweepB, toi.t1),
                                     !.done = FALSE, !.t2 = toiIn.tMax, !.pushBackIter = 0, !.pc = "pushback"]
    /\ UNCHANGED <<toiIn, toiStats, toiHist>>

S2CheckNoFloor(s2, minT, maxT) == IF s2 > maxT THEN "separated" ELSE "advance"

S2CheckNoTolerance(s2, minT, maxT) ==
    IF 2 * s2 > minT + maxT THEN "separated" ELSE IF s2 > minT THEN "advance" ELSE "deeper"

S2CheckMutant(s2, minT, maxT) == IF s2 > minT THEN "separated" ELSE "deeper"

\* the tests on the separation s2 of the deepest pair at t2
S2Check(s2, minT, maxT) == IF s2 > maxT THEN "separated" ELSE IF s2 > minT THEN "advance" ELSE "deeper"

S1CheckMutant(s1, minT, maxT) == IF s1 < minT THEN "failed" ELSE "root"

\* the tests on the separation s1 of the witness pair at t1
S1Check(s1, minT, maxT) == IF s1 < minT THEN "failed" ELSE IF s1 <= maxT THEN "touching" ELSE "root"

\* the push-back loop runs while pushBackIter is below this
PushBackBound == MaxPolygonVertices

\* one pass of the push-back loop up to the root finder (lines 319-372)
TOIPushBack ==
    /\ UNCHANGED exceptTOI
    /\ toi.pc = "pushback"
    /\ IF toi.pushBackIter >= PushBackBound
       THEN toi' = [toi EXCEPT !.pc = "afterpush"]
       ELSE LET minSeparation == FindMinSeparation(toi.fcn, toi.t2)
                s2 == minSeparation.distance
                s1 == Evaluate(toi.fcn, minSeparation.indexPair, toi.t1)
                at2 == [toi EXCEPT !.minSeparation = minSeparation, !.s2 = s2]
                check == S1Check(s1, MinTarget(toiIn), MaxTarget(toiIn))
                reached == S2Check(s2, MinTarget(toiIn), MaxTarget(toiIn))
            IN toi' = IF reached = "separated"
                      THEN [at2 EXCEPT !.output = TOIOutput("separated", toi.t2), !.done = TRUE,
                                       !.pc = "afterpush", !.via = "s2"]
                      ELSE IF reached = "advance"
                      THEN [at2 EXCEPT !.t1 = toi.t2, !.pc = "afterpush"]
                      ELSE CASE check = "failed" ->
                                  [at2 EXCEPT !.s1 = s1, !.output = TOIOutput("failed", toi.t1), !.done = TRUE,
                                              !.pc = "afterpush", !.via = "s1"]
                             [] check = "touching" ->
                                  [at2 EXCEPT !.s1 = s1, !.output = TOIOutput("touching", toi.t1), !.done = TRUE,
                                              !.pc = "afterpush", !.via = "s1"]
                             [] OTHER ->
                                  [at2 EXCEPT !.s1 = s1, !.rootIterCount = 0, !.a1 = toi.t1, !.a2 = toi.t2,
                                              !.pc = "root"]
    /\ UNCHANGED <<toiIn, toiStats, toiHist>>

SecantStepMutant(a1, a2, s1, s2, target) == a1 + ((s1 - target) * (a2 - a1)) \div (target - s2)

\* a1 + (target - s1) * (a2 - a1) / (s2 - s1), for s2 < s1
SecantStep(a1, a2, s1, s2, target) == a1 + ((s1 - target) * (a2 - a1)) \div (s1 - s2)

BisectionStep(a1, a2) == (a1 + a2) \div 2

RootBoundMutant == MaxTOIRootIterCount * MaxTOIRootIterCount

\* the root finder runs while rootIterCount is below this
RootBound == MaxTOIRootIterCount

\* one pass of the root finder's do-while loop (lines 373-402); leaving it ends the
\* push-back pass (lines 404-405 and the loop's ++pushBackIter)
TOIRoot ==
    /\ UNCHANGED exceptTOI
    /\ toi.pc = "root"
    /\ LET target == Target(toiIn)
           t == IF toi.rootIterCount % 2 = 1
                THEN SecantStep(toi.a1, toi.a2, toi.s1, toi.s2, target)
                ELSE BisectionStep(toi.a1, toi.a2)
           rootIterCount == toi.rootIterCount + 1
           s == Evaluate(toi.fcn, toi.minSeparation.indexPair, t)
           found == Abs(s - target) < Tolerance
           next == IF found THEN [toi EXCEPT !.t = t, !.rootIterCount = rootIterCount, !.t2 = t]
                   ELSE IF s > target
                   THEN [toi EXCEPT !.t = t, !.rootIterCount = rootIterCount, !.a1 = t, !.s1 = s]
                   ELSE [toi EXCEPT !.t = t, !.rootIterCount = rootIterCount, !.a2 = t, !.s2 = s]
           leave == found \/ ~(rootIterCount < RootBound)
       IN /\ toi' = IF leave
                    THEN [next EXCEPT !.pushBackIter = @ + 1, !.pc = "pushback"]
                    ELSE next
          /\ toiStats' = IF leave
                         THEN [toiStats EXCEPT !.toiRootIters = @ + rootIterCount,
                                               !.toiMaxRootIters = Max(@, rootIterCount)]
                         ELSE toiStats
    /\ UNCHANGED <<toiIn, toiHist>>

OuterBoundMutant == MaxTOIIterations + 1

OuterBoundCounted == MaxTOIIterations + 1 - toiStats.toiCalls

\* the outer loop gives up when iter reaches this
OuterBound == MaxTOIIterations

TOIAfterPushMutant ==
    /\ UNCHANGED exceptTOI
    /\ toi.pc = "afterpush"
    /\ LET iter == toi.iter + 1
       IN toi' = IF toi.done THEN [toi EXCEPT !.iter = iter, !.pc = "exit"]
                 ELSE IF iter = OuterBound
                 THEN [toi EXCEPT !.iter = iter, !.pc = "exit", !.via = "exhausted"]
                 ELSE [toi EXCEPT !.iter = iter, !.pc = "outer"]
    /\ toiStats' = [toiStats EXCEPT !.toiIters = @ + 1]
    /\ UNCHANGED <<toiIn, toiHist>>

\* after the push-back loop (lines 408-419)
TOIAfterPush ==
    /\ UNCHANGED exceptTOI
    /\ toi.pc = "afterpush"
    /\ LET iter == toi.iter + 1
       IN toi' = IF toi.done THEN [toi EXCEPT !.iter = iter, !.pc = "exit"]
                 ELSE IF iter = OuterBound
                 THEN [toi EXCEPT !.iter = iter, !.output = TOIOutput("failed", toi.t1),
                                  !.pc = "exit", !.via = "exhausted"]
                 ELSE [toi EXCEPT !.iter = iter, !.pc = "outer"]
    /\ toiStats' = [toiStats EXCEPT !.toiIters = @ + 1]
    /\ UNCHANGED <<toiIn, toiHist>>

\* lines 422-424: the statistics updated, the output returned
TOIReturn ==
    /\ UNCHANGED exceptTOI
    /\ toi.pc = "exit"
    /\ toiStats' = [toiStats EXCEPT !.toiMaxIters = Max(@, toi.iter)]
    /\ toiHist' = Append(toiHist, [tMax |-> toiIn.tMax, output |-> toi.output, via |-> toi.via,
                                   distanceSquared |-> toi.distanceSquared, s1 |-> toi.s1,
                                   iter |-> toi.iter])
    /\ toi' = [toi EXCEPT !.pc = "idle"]
    /\ UNCHANGED toiIn

TOINext == TOICall \/ TOIOuter \/ TOIPushBack \/ TOIRoot \/ TOIAfterPush \/ TOIReturn

(***************************************************************************)
(* Position solver: numbers.  A RealNum of the position solver is an       *)
(* integer (lengths in the units of LinearSlop above, masses, angles and   *)
(* unit-vector components as fixed-point numbers of resolution One), or    *)
(* +infinity, -infinity or the invalid value NaN; the operations follow    *)
(* IEEE 754 where a zero divisor, an infinity or a NaN takes part.         *)
(***************************************************************************)
\* F of the value of a, and F of the values of a and b: an operand that is itself a long
\* expression is worked out once, however often F refers to it
At(a, F(_)) == CHOOSE r \in {F(x) : x \in {a}} : TRUE

At2(a, b, F(_, _)) == CHOOSE r \in {F(x, y) : x \in {a}, y \in {b}} : TRUE

\* std::numeric_limits<RealNum>::infinity()
Infinity == 1000000

\* the invalid RealNum
NaN == 2000000

IsValid(x) == x # NaN

IsFinite(x) == x # NaN /\ x # Infinity /\ x # -Infinity

RNeg(a) == At(a, LAMBDA x : IF x = NaN THEN NaN ELSE -x)

RAdd(a, b) ==
    At2(a, b, LAMBDA x, y :
        IF x = NaN \/ y = NaN THEN NaN
        ELSE IF ~IsFinite(x) THEN (IF y = -x THEN NaN ELSE x)
        ELSE IF ~IsFinite(y) THEN y
        ELSE x + y)

RSub(a, b) == RAdd(a, RNeg(b))

\* a * b / scale
RMul(a, b, scale) ==
    At2(a, b, LAMBDA x, y :
        IF x = NaN \/ y = NaN THEN NaN
        ELSE IF ~IsFinite(x) \/ ~IsFinite(y)
             THEN (IF x = 0 \/ y = 0 THEN NaN ELSE Sgn(x) * Sgn(y) * Infinity)
        ELSE Sgn(x * y) * (Abs(x * y) \div scale))

\* a * scale / b, for a divisor that is never a negative zero
RDiv(a, b, scale) ==
    At2(a, b, LAMBDA x, y :
        IF x = NaN \/ y = NaN THEN NaN
        ELSE IF ~IsFinite(x) THEN (IF ~IsFinite(y) THEN NaN ELSE IF y < 0 THEN -x ELSE x)
        ELSE IF ~IsFinite(y) THEN 0
        ELSE IF y = 0 THEN (IF x = 0 THEN NaN ELSE Sgn(x) * Infinity)
        ELSE Sgn(x) * Sgn(y) * ((Abs(x) * scale) \div Abs(y)))

\* a < b: false when either is NaN
RLess(a, b) == At2(a, b, LAMBDA x, y : x # NaN /\ y # NaN /\ x < y)

\* Min(a, b) = a < b ? a : b and Max(a, b) = a > b ? a : b
RMin(a, b) == At2(a, b, LAMBDA x, y : IF RLess(x, y) THEN x ELSE y)

RMax(a, b) == At2(a, b, LAMBDA x, y : IF RLess(y, x) THEN x ELSE y)

RClamp(a, low, high) == RMax(low, RMin(a, high))

RVAdd(a, b) == At2(a, b, LAMBDA v, w : <<RAdd(v[1], w[1]), RAdd(v[2], w[2])>>)

RVSub(a, b) == At2(a, b, LAMBDA v, w : <<RSub(v[1], w[1]), RSub(v[2], w[2])>>)

RVNeg(a) == At(a, LAMBDA v : <<RNeg(v[1]), RNeg(v[2])>>)

\* s * v / scale
RVScale(s, v, scale) == At2(s, v, LAMBDA x, w : <<RMul(x, w[1], scale), RMul(x, w[2], scale)>>)

\* v / s * scale
RVDiv(v, s, scale) == At2(v, s, LAMBDA w, x : <<RDiv(w[1], x, scale), RDiv(w[2], x, scale)>>)

RDot(a, b, scale) ==
    At2(a, b, LAMBDA v, w : RAdd(RMul(v[1], w[1], scale), RMul(v[2], w[2], scale)))

RCross(a, b, scale) ==
    At2(a, b, LAMBDA v, w : RSub(RMul(v[1], w[2], scale), RMul(v[2], w[1], scale)))

\* the rotation by an angle; invalid for an angle that is not finite
RRot(angle) ==
    At(angle, LAMBDA a : IF IsFinite(a) THEN [s |-> Sin(a), c |-> Cos(a)] ELSE [s |-> NaN, c |-> NaN])

\* Rotate(v, q)
RRotate(v, q) ==
    At2(v, q, LAMBDA w, r :
        <<RSub(RMul(r.c, w[1], One), RMul(r.s, w[2], One)),
          RAdd(RMul(r.s, w[1], One), RMul(r.c, w[2], One))>>)

\* Transform(v, xf) = Rotate(v, xf.q) + xf.p
RTransform(v, xf) == At(xf, LAMBDA t : RVAdd(RRotate(v, t.q), t.p))

\* Position: linear and angular
Position(linear, angular) == [linear |-> linear, angular |-> angular]

PositionAdd(a, b) ==
    At2(a, b, LAMBDA p, q : Position(RVAdd(p.linear, q.linear), RAdd(p.angular, q.angular)))

PositionNeg(a) == At(a, LAMBDA p : Position(RVNeg(p.linear), RNeg(p.angular)))

\* GetTransformation(pos, local_ctr): q = Rot(pos.angular), p = pos.linear - Rotate(local_ctr, q)
GetTransformation(pos, localCenter) ==
    At(RRot(pos.angular), LAMBDA q : [p |-> RVSub(pos.linear, RRotate(localCenter, q)), q |-> q])

(***************************************************************************)
(* Manifold.hpp: the manifold of a contact.  m_points is an array of       *)
(* MaxManifoldPoints points of which the first pointCount are in use.      *)
(***************************************************************************)
MaxManifoldPoints == 2

\* GetInvalid<Vec2>() / GetInvalid<UnitVec2>()
InvalidVec == <<NaN, NaN>>

IsValidVec(v) == IsValid(v[1]) /\ IsValid(v[2])

\* Manifold::Point: localPoint and contactFeature (the impulses start at zero)
ManifoldPoint(lp, cf) == [localPoint |-> lp, contactFeature |-> cf]

DefaultPoint == ManifoldPoint(InvalidVec, "none")

\* the points array holding the given points first
PointArray(mps) == [i \in 1..MaxManifoldPoints |-> IF i <= Len(mps) THEN mps[i] ELSE DefaultPoint]

\* what the private constructor Manifold(t, ln, lp, n, mpa) asserts
ManifoldCtorPre(t, ln, lp, n) ==
    /\ t # "e_unset" \/ n = 0
    /\ t = "e_unset" \/ IsValidVec(lp)
    /\ t # "e_circles" \/ (n = 1 /\ ~IsValidVec(ln))

\* Manifold(t, ln, lp, n, mpa)
ManifoldCtor(t, ln, lp, n, mpa) ==
    [type |-> t, localNormal |-> ln, localPoint |-> lp, pointCount |-> n, points |-> mpa]

\* Manifold(): type e_unset, no points
DefaultManifold == ManifoldCtor("e_unset", InvalidVec, InvalidVec, 0, PointArray(<<>>))

\* GetForCircles(vA, iA, vB, iB)
GetForCircles(vA, vB) ==
    ManifoldCtor("e_circles", InvalidVec, vA, 1, PointArray(<<ManifoldPoint(vB, "vertex-vertex")>>))

\* GetForFaceA(normalA, faceA) and its overloads with one and two points
GetForFaceA(ln, lp, mps) == ManifoldCtor("e_faceA", ln, lp, Len(mps), PointArray(mps))

\* GetForFaceB(normalB, faceB) and its overloads with one and two points
GetForFaceB(ln, lp, mps) == ManifoldCtor("e_faceB", ln, lp, Len(mps), PointArray(mps))

GetPointCount(m) == m.pointCount

\* GetPoint(index), index counted from 0
GetPoint(m, index) == m.points[index + 1]

\* AddPoint asserting the free slot only, whatever the type
AddPointPreMutant(m) == m.pointCount < MaxManifoldPoints

\* what AddPoint asserts
AddPointPre(m) ==
    /\ m.type # "e_unset"
    /\ m.type # "e_circles" \/ m.pointCount = 0
    /\ m.pointCount < MaxManifoldPoints

\* AddPoint(mp): m_points[m_pointCount] = mp; ++m_pointCount
AddPoint(m, mp) ==
    [m EXCEPT !.points = [@ EXCEPT ![m.pointCount + 1] = mp], !.pointCount = @ + 1]

(***************************************************************************)
(* ContactSolver.cpp: the position solver.                                 *)
(* Lengths are integers in the length units of LinearSlop; inverse masses, *)
(* angles, unit-vector components and the resolution rate are fixed-point  *)
(* with One as 1.0; an inverse rotational inertia is fixed-point per       *)
(* LengthSquared square length units.                                      *)
(***************************************************************************)
\* the square of the length that one unit of rotational inertia refers to
LengthSquared == 1024

\* the unit vector along v, the zero vector for v = 0, invalid for a v that is not finite
GetUnitVector(v) ==
    IF IsFinite(v[1]) /\ IsFinite(v[2]) THEN Normalize(v) ELSE InvalidVec

\* almost_equal(x, y): x and y are finite and less than two units of resolution apart
AlmostEqual(x, y) == IsFinite(x) /\ IsFinite(y) /\ Abs(x - y) < 2

\* PositionSolverManifold
PositionSolverManifold(normal, point, separation) ==
    [m_normal |-> normal, m_point |-> point, m_separation |-> separation]

\* GetPSM(manifold, index, posA, localCenterA, posB, localCenterB): the world normal, the
\* world contact point and the separation along the normal, from the bodies' positions
GetPSM(manifold, index, posA, localCenterA, posB, localCenterB) ==
    At2(GetTransformation(posA, localCenterA), GetTransformation(posB, localCenterB),
        LAMBDA xfA, xfB :
        CASE manifold.type = "e_circles" ->
               At2(RTransform(manifold.localPoint, xfA),
                   RTransform(GetPoint(manifold, index).localPoint, xfB),
                   LAMBDA pointA, pointB :
                   At(RVSub(pointB, pointA), LAMBDA delta :
                   At(GetUnitVector(delta), LAMBDA normal :
                      PositionSolverManifold(normal, RVDiv(RVAdd(pointA, pointB), 2, 1),
                                             RDot(delta, normal, One)))))
          [] manifold.type = "e_faceA" ->
               At2(RRotate(manifold.localNormal, xfA.q),
                   RTransform(GetPoint(manifold, index).localPoint, xfB),
                   LAMBDA normal, clipPoint :
                   PositionSolverManifold(
                       normal, clipPoint,
                       RDot(RVSub(clipPoint, RTransform(manifold.localPoint, xfA)), normal, One)))
          [] manifold.type = "e_faceB" ->
               At2(RRotate(manifold.localNormal, xfB.q),
                   RTransform(GetPoint(manifold, index).localPoint, xfA),
                   LAMBDA normal, clipPoint :
                   PositionSolverManifold(
                       RVNeg(normal), clipPoint,
                       RDot(RVSub(clipPoint, RTransform(manifold.localPoint, xfB)), normal, One)))
          [] OTHER -> PositionSolverManifold(InvalidVec, InvalidVec, NaN))

\* BodyConstraint of the position solver
BodyConstraint(invMass, invRotInertia, localCenter, position) ==
    [invMass |-> invMass, invRotInertia |-> invRotInertia, localCenter |-> localCenter,
     position |-> position]

\* PositionConstraint: the manifold, the two bodies (their names) and the two radii
PositionConstraint(manifold, bodyA, radiusA, bodyB, radiusB) ==
    [manifold |-> manifold, bodyA |-> bodyA, radiusA |-> radiusA, bodyB |-> bodyB, radiusB |-> radiusB]

\* ConstraintSolverConf
ConstraintSolverConf(resolutionRate, linearSlop, maxLinearCorrection) ==
    [resolutionRate |-> resolutionRate, linearSlop |-> linearSlop,
     maxLinearCorrection |-> maxLinearCorrection]

\* PositionSolution
PositionSolution(pos_a, pos_b, min_separation) ==
    [pos_a |-> pos_a, pos_b |-> pos_b, min_separation |-> min_separation]

\* the effective mass K of solver_fn
EffectiveMassK(m, psm, rA, rB) ==
    At2(RCross(rA, psm.m_normal, One), RCross(rB, psm.m_normal, One), LAMBDA rnA, rnB :
        RAdd(RAdd(m.invMassA + m.invMassB, RMul(m.invInertiaA, RMul(rnA, rnA, 1), LengthSquared)),
             RMul(m.invInertiaB, RMul(rnB, rnB, 1), LengthSquared)))

\* solver_fn(psm, pA, pB) of SolvePositionConstraint, m holding what the lambda captures:
\* the inverse masses and inertias (times moveA, moveB) and the total radius
SolverFn(m, conf, psm, pA, pB) ==
    At2(RVSub(psm.m_point, pA), RVSub(psm.m_point, pB), LAMBDA rA, rB :
    At2(RSub(psm.m_separation, m.totalRadius), EffectiveMassK(m, psm, rA, rB), LAMBDA separation, K :
    At(RClamp(RMul(conf.resolutionRate, RAdd(separation, conf.linearSlop), One),
              -conf.maxLinearCorrection, 0), LAMBDA C :
    At(RVDiv(RVScale(RNeg(C), psm.m_normal, One), K, One), LAMBDA P :
       PositionSolution(
           PositionNeg(Position(RVScale(m.invMassA, P, One),
                                RMul(m.invInertiaA, RCross(rA, P, 1), LengthSquared))),
           Position(RVScale(m.invMassB, P, One),
                    RMul(m.invInertiaB, RCross(rB, P, 1), LengthSquared)),
           separation)))))

\* the other point's manifold taken as it was computed from the positions on entry
SecondPSMMutant(manifold, index, posA, localCenterA, posB, localCenterB, psm) == psm

\* psm1_prime / psm0_prime: the other point's manifold recomputed from the positions that
\* the first correction produced (psm is that point's manifold from the positions on entry)
SecondPSM(manifold, index, posA, localCenterA, posB, localCenterB, psm) ==
    GetPSM(manifold, index, posA, localCenterA, posB, localCenterB)

\* the record SolvePositionConstraint returns, with the calls of solver_fn it made, in
\* their order: the point index and the manifold handed to each
Solved(pos_a, pos_b, min_separation, calls) ==
    [pos_a |-> pos_a, pos_b |-> pos_b, min_separation |-> min_separation, calls |-> calls]

SolverCall(index, psm) == [index |-> index, psm |-> psm]

\* what solver_fn captures: the inverse masses and inertias times moveA and moveB (a bool
\* counts as 0 or 1), and the total radius
SolverMasses(pc, bodies, moveA, moveB) ==
    [invMassA |-> bodies[pc.bodyA].invMass * (IF moveA THEN 1 ELSE 0),
     invInertiaA |-> bodies[pc.bodyA].invRotInertia * (IF moveA THEN 1 ELSE 0),
     invMassB |-> bodies[pc.bodyB].invMass * (IF moveB THEN 1 ELSE 0),
     invInertiaB |-> bodies[pc.bodyB].invRotInertia * (IF moveB THEN 1 ELSE 0),
     totalRadius |-> pc.radiusA + pc.radiusB]

\* the two solves of an ordered pair: point i first, from its manifold psmi, then point j
\* from its manifold recomputed at the corrected positions (psmj is the one from before)
SolveOrdered(pc, bodies, m, conf, i, psmi, j, psmj) ==
    At2(bodies[pc.bodyA], bodies[pc.bodyB], LAMBDA bodyA, bodyB :
    At(SolverFn(m, conf, psmi, bodyA.position.linear, bodyB.position.linear), LAMBDA si :
    At2(PositionAdd(bodyA.position, si.pos_a), PositionAdd(bodyB.position, si.pos_b), LAMBDA posA, posB :
    At(SecondPSM(pc.manifold, j, posA, bodyA.localCenter, posB, bodyB.localCenter, psmj), LAMBDA prime :
    At(SolverFn(m, conf, prime, posA.linear, posB.linear), LAMBDA sj :
       Solved(PositionAdd(posA, sj.pos_a), PositionAdd(posB, sj.pos_b), si.min_separation,
              <<SolverCall(i, psmi), SolverCall(j, prime)>>))))))

\* SolvePositionConstraint(pc, moveA, moveB, conf), bodies giving the BodyConstraint of
\* each body name
SolvePositionConstraint(pc, bodies, moveA, moveB, conf) ==
    At2(bodies[pc.bodyA], bodies[pc.bodyB], LAMBDA bodyA, bodyB :
    At2(bodyA.position, bodyB.position, LAMBDA posA, posB :
    At(SolverMasses(pc, bodies, moveA, moveB), LAMBDA m :
       IF GetPointCount(pc.manifold) = 1
       THEN At(GetPSM(pc.manifold, 0, posA, bodyA.localCenter, posB, bodyB.localCenter), LAMBDA psm0 :
            At(SolverFn(m, conf, psm0, posA.linear, posB.linear), LAMBDA s0 :
               Solved(PositionAdd(posA, s0.pos_a), PositionAdd(posB, s0.pos_b),
                      RAdd(0, s0.min_separation), <<SolverCall(0, psm0)>>)))
       ELSE IF GetPointCount(pc.manifold) = 2
       THEN At2(GetPSM(pc.manifold, 0, posA, bodyA.localCenter, posB, bodyB.localCenter),
                GetPSM(pc.manifold, 1, posA, bodyA.localCenter, posB, bodyB.localCenter),
                LAMBDA psm0, psm1 :
                IF AlmostEqual(psm0.m_separation, psm1.m_separation)
                THEN At2(SolverFn(m, conf, psm0, posA.linear, posB.linear),
                         SolverFn(m, conf, psm1, posA.linear, posB.linear), LAMBDA s0, s1 :
                         Solved(PositionAdd(PositionAdd(posA, s0.pos_a), s1.pos_a),
                                PositionAdd(PositionAdd(posB, s0.pos_b), s1.pos_b),
                                s0.min_separation, <<SolverCall(0, psm0), SolverCall(1, psm1)>>))
                ELSE IF RLess(psm0.m_separation, psm1.m_separation)
                THEN SolveOrdered(pc, bodies, m, conf, 0, psm0, 1, psm1)
                ELSE IF RLess(psm1.m_separation, psm0.m_separation)
                THEN SolveOrdered(pc, bodies, m, conf, 1, psm1, 0, psm0)
                ELSE Solved(posA, posB, Infinity, <<>>))
       ELSE Solved(posA, posB, Infinity, <<>>))))

(***************************************************************************)
(* The position solver as a state machine: calls of the two                *)
(* SolvePositionConstraints on a small world.  Body 1 is the static        *)
(* ground, body 2 a box lying on it, body 3 a box lying on body 2 and body *)
(* 4 a disk at the upper right corner of body 2; every contact overlaps by *)
(* more than LinearSlop at the start.                                      *)
(***************************************************************************)
\* Bound: number of SolvePositionConstraints calls (one call is one position iteration).
MaxPosCalls == 2

BodyNames == 1..4

\* half the side of a box, and the radius of the disk
HalfSide == 2 * LinearSlop

\* the radius of a polygon's skin
PolygonRadius == LinearSlop

\* the bodies at the start: body 2 overlaps the ground by depth and is turned by angle
InitialBodies ==
    {[b \in BodyNames |->
        CASE b = 1 -> BodyConstraint(0, 0, <<0, 0>>, Position(<<0, 0>>, 0))
          [] b = 2 -> BodyConstraint(One, One \div 4, <<0, 0>>,
                                     Position(<<0, HalfSide + 2 * PolygonRadius - depth>>, angle))
          [] b = 3 -> BodyConstraint(One, One \div 4, <<0, LinearSlop \div 2>>,
                                     Position(<<0, 3 * HalfSide + 4 * PolygonRadius - depth - 24>>, angle))
          [] b = 4 -> BodyConstraint(2 * One, 0, <<0, 0>>,
                                     Position(<<HalfSide + 20, 2 * HalfSide + 2 * PolygonRadius - depth + 20>>, 0))]
     : depth \in {24, 48}, angle \in {0, 16}}

\* the contact of the ground (A) and body 2 (B): a face of A against one or two corners of
\* B, the second corner lying skew above the first
GroundContacts ==
    {PositionConstraint(GetForFaceA(<<0, One>>, <<0, 0>>,
                                    <<ManifoldPoint(<<-HalfSide, -HalfSide>>, "face-vertex 0"),
                                      ManifoldPoint(<<HalfSide, skew - HalfSide>>, "face-vertex 1")>>),
                        1, PolygonRadius, 2, PolygonRadius) : skew \in {-1, 0, 8}}
    \cup {PositionConstraint(GetForFaceA(<<0, One>>, <<0, 0>>,
                                         <<ManifoldPoint(<<0, -HalfSide>>, "face-vertex 0")>>),
                             1, PolygonRadius, 2, PolygonRadius)}

\* the contact of body 2 (A) and body 3 (B): a face of B against two corners of A
StackContact ==
    PositionConstraint(GetForFaceB(<<0, -One>>, <<0, (LinearSlop \div 2) - HalfSide>>,
                                   <<ManifoldPoint(<<-HalfSide, HalfSide>>, "vertex-face 0"),
                                     ManifoldPoint(<<HalfSide, HalfSide>>, "vertex-face 1")>>),
                       2, PolygonRadius, 3, PolygonRadius)

\* the same contact with a manifold that has lost its points
EmptyContact ==
    PositionConstraint(GetForFaceB(<<0, -One>>, <<0, (LinearSlop \div 2) - HalfSide>>, <<>>),
                       2, PolygonRadius, 3, PolygonRadius)

\* the contact of a corner of body 2 (A) and the disk, body 4 (B)
DiskContact ==
    PositionConstraint(GetForCircles(<<HalfSide, HalfSide>>, <<0, 0>>), 2, PolygonRadius, 4, HalfSide)

\* the constraint lists handed to the solver
ConstraintLists ==
    {<<c>> : c \in GroundContacts}
    \cup {<<c, StackContact, DiskContact>> : c \in GroundContacts}
    \cup {<<DiskContact, EmptyContact>>, <<>>}

\* the pairs bodiesA, bodiesB of the TOI variant
TOIPairs == {<<2, 3>>, <<3, 4>>}

\* the configuration of the regular solver and of the TOI solver
RegularConf == ConstraintSolverConf(One \div 5, LinearSlop, 40 * LinearSlop)

TOIConf == ConstraintSolverConf((3 * One) \div 4, LinearSlop, 40 * LinearSlop)

NoSolved == Solved(Position(<<0, 0>>, 0), Position(<<0, 0>>, 0), 0, <<>>)

\* the locals before a call: nothing solved yet
PosIdleRun(bs) ==
    [pc |-> "idle", i |-> 1, minSeparation |-> Infinity, entry |-> bs, ret |-> Infinity,
     solved |-> NoSolved, before |-> bs, moveA |-> FALSE, moveB |-> FALSE]

PosInit ==
    /\ bodyConstraints \in InitialBodies
    /\ posIn = [constraints |-> <<>>, toi |-> FALSE, bodiesA |-> 0, bodiesB |-> 0, conf |-> RegularConf]
    /\ posRun = PosIdleRun(bodyConstraints)
    /\ posCalls = 0

\* a call of SolvePositionConstraints(positionConstraints, conf): minSeparation starts at infinity
PosCall ==
    /\ UNCHANGED exceptPos
    /\ posRun.pc = "idle"
    /\ posCalls < MaxPosCalls
    /\ \E cs \in ConstraintLists :
          posIn' = [constraints |-> cs, toi |-> FALSE, bodiesA |-> 0, bodiesB |-> 0, conf |-> RegularConf]
    /\ posRun' = [PosIdleRun(bodyConstraints) EXCEPT !.pc = "loop"]
    /\ UNCHANGED <<bodyConstraints, posCalls>>

\* a call of SolvePositionConstraints(positionConstraints, bodiesA, bodiesB, conf)
PosCallTOI ==
    /\ UNCHANGED exceptPos
    /\ posRun.pc = "idle"
    /\ posCalls < MaxPosCalls
    /\ \E cs \in ConstraintLists, pair \in TOIPairs :
          posIn' = [constraints |-> cs, toi |-> TRUE, bodiesA |-> pair[1], bodiesB |-> pair[2],
                    conf |-> TOIConf]
    /\ posRun' = [PosIdleRun(bodyConstraints) EXCEPT !.pc = "loop"]
    /\ UNCHANGED <<bodyConstraints, posCalls>>

\* assert(IsValid(psm0.m_separation) && IsValid(psm1.m_separation)) of a 2-point manifold
SeparationsValid(pc, bs) ==
    GetPointCount(pc.manifold) = 2 =>
        /\ IsValid(GetPSM(pc.manifold, 0, bs[pc.bodyA].position, bs[pc.bodyA].localCenter,
                          bs[pc.bodyB].position, bs[pc.bodyB].localCenter).m_separation)
        /\ IsValid(GetPSM(pc.manifold, 1, bs[pc.bodyA].position, bs[pc.bodyA].localCenter,
                          bs[pc.bodyB].position, bs[pc.bodyB].localCenter).m_separation)

\* one round of a loop over the constraints: solve the constraint, set both bodies'
\* positions, take the minimum.  A build with assertions stops instead where the assertion
\* on the separations fails; one without carries on.
PosLoopBody(pc, moveA, moveB) ==
    \/ \E res \in {SolvePositionConstraint(pc, bodyConstraints, moveA, moveB, posIn.conf)} :
          /\ bodyConstraints' = [bodyConstraints EXCEPT ![pc.bodyA].position = res.pos_a,
                                                        ![pc.bodyB].position = res.pos_b]
          /\ posRun' = [posRun EXCEPT !.i = @ + 1,
                                      !.minSeparation = RMin(@, res.min_separation),
                                      !.solved = res, !.before = bodyConstraints,
                                      !.moveA = moveA, !.moveB = moveB]
    \/ /\ ~SeparationsValid(pc, bodyConstraints)
       /\ posRun' = [posRun EXCEPT !.pc = "aborted"]
       /\ UNCHANGED bodyConstraints

\* the loop body of SolvePositionConstraints(positionConstraints, conf)
PosStep ==
    /\ UNCHANGED exceptPos
    /\ posRun.pc = "loop" /\ ~posIn.toi
    /\ posRun.i <= Len(posIn.constraints)
    /\ \E pc \in {posIn.constraints[posRun.i]} : PosLoopBody(pc, TRUE, TRUE)
    /\ UNCHANGED <<posIn, posCalls>>

\* the loop body of SolvePositionConstraints(positionConstraints, bodiesA, bodiesB, conf)
PosStepTOI ==
    /\ UNCHANGED exceptPos
    /\ posRun.pc = "loop" /\ posIn.toi
    /\ posRun.i <= Len(posIn.constraints)
    /\ \E pc \in {posIn.constraints[posRun.i]} :
          PosLoopBody(pc, pc.bodyA = posIn.bodiesA \/ pc.bodyA = posIn.bodiesB,
                      pc.bodyB = posIn.bodiesA \/ pc.bodyB = posIn.bodiesB)
    /\ UNCHANGED <<posIn, posCalls>>

\* return minSeparation
PosReturn ==
    /\ UNCHANGED exceptPos
    /\ posRun.pc = "loop"
    /\ posRun.i > Len(posIn.constraints)
    /\ posRun' = [posRun EXCEPT !.pc = "idle", !.ret = posRun.minSeparation]
    /\ posCalls' = posCalls + 1
    /\ UNCHANGED <<bodyConstraints, posIn>>

PosNext == PosCall \/ PosCallTOI \/ PosStep \/ PosStepTOI \/ PosReturn

(***************************************************************************)
(* b2StackAllocator.cpp: the stack allocator as a state machine.  A        *)
(* pointer is the arena offset it points at, or the name of a block of the *)
(* system allocator.                                                       *)
(***************************************************************************)
\* Bound: number of allocations the caller keeps outstanding at once.
MaxEntries == 3

\* size of the arena m_data, in bytes
b2_stackSize == 102400

\* length of m_entries
b2_maxStackEntries == 32

\* the sizes asked for: nothing, a byte, half the arena, all of it, a byte more
AllocSizes == {0, 1, b2_stackSize \div 2, b2_stackSize, b2_stackSize + 1}

\* the blocks the system allocator can hand out
HeapBlocks == 1..MaxEntries

ArenaPtr(index) == [arena |-> TRUE, at |-> index]

HeapPtr(block) == [arena |-> FALSE, at |-> block]

NullPtr == [arena |-> FALSE, at |-> 0]

\* b2StackEntry
StackEntry(data, size, usedMalloc) == [data |-> data, size |-> size, usedMalloc |-> usedMalloc]

\* b2StackAllocator(): all members zero
EmptyStack ==
    [m_index |-> 0, m_allocation |-> 0, m_maxAllocation |-> 0, m_entryCount |-> 0, m_entries |-> <<>>]

StackInit ==
    /\ stack = EmptyStack
    /\ heap = {}
    /\ outstanding = <<>>
    /\ stackPc = "live"

\* the arena test of Allocate with the size left out
FitsArenaMutant(index, size) == ~(index > b2_stackSize)

\* the negation of Allocate's test m_index + size > b2_stackSize
FitsArena(index, size) == ~(index + size > b2_stackSize)

\* Allocate(size), block being what b2Alloc returns if it is called
Allocate(st, size, block) ==
    LET entry == IF FitsArena(st.m_index, size)
                 THEN StackEntry(ArenaPtr(st.m_index), size, FALSE)
                 ELSE StackEntry(HeapPtr(block), size, TRUE)
    IN [m_index |-> IF entry.usedMalloc THEN st.m_index ELSE st.m_index + size,
        m_allocation |-> st.m_allocation + size,
        m_maxAllocation |-> Max(st.m_maxAllocation, st.m_allocation + size),
        m_entryCount |-> st.m_entryCount + 1,
        m_entries |-> Append(st.m_entries, entry)]

\* a call of Allocate: b2Assert(m_entryCount < b2_maxStackEntries), then the entry
StackAllocate ==
    /\ UNCHANGED exceptStack
    /\ stackPc = "live"
    /\ Len(outstanding) < MaxEntries
    /\ \E size \in AllocSizes, block \in HeapBlocks \ heap :
          IF stack.m_entryCount < b2_maxStackEntries
          THEN /\ stack' = Allocate(stack, size, block)
               /\ heap' = IF stack'.m_entries[stack'.m_entryCount].usedMalloc
                          THEN heap \cup {block} ELSE heap
               /\ outstanding' = Append(outstanding,
                                        [data |-> stack'.m_entries[stack'.m_entryCount].data,
                                         size |-> size])
               /\ UNCHANGED stackPc
          ELSE /\ stackPc' = "assertion failed"
               /\ UNCHANGED <<stack, heap, outstanding>>

\* the first two assertions of Free with the one on p left out
FreePreMutant(st, p) == st.m_entryCount > 0

\* the first two assertions of Free: b2Assert(m_entryCount > 0) and b2Assert(p == entry->data)
FreePre(st, p) ==
    /\ st.m_entryCount > 0
    /\ p = st.m_entries[st.m_entryCount].data

\* m_index after Free with the arena never given back
FreeIndexMutant(st, entry) == st.m_index

\* m_index after Free of the last entry
FreeIndex(st, entry) == IF entry.usedMalloc THEN st.m_index ELSE st.m_index - entry.size

\* the assertions of Free on the members: b2Assert(m_index >= entry->size) for an arena
\* entry and b2Assert(m_allocation >= entry->size)
FreeMembersPre(st, entry) ==
    /\ entry.usedMalloc \/ st.m_index >= entry.size
    /\ st.m_allocation >= entry.size

\* Free(p) once its assertions hold
Free(st, p) ==
    LET entry == st.m_entries[st.m_entryCount]
    IN [st EXCEPT !.m_index = FreeIndex(st, entry),
                  !.m_allocation = @ - entry.size,
                  !.m_entryCount = @ - 1,
                  !.m_entries = SubSeq(@, 1, st.m_entryCount - 1)]

\* the caller's blocks without the most recent one that p points at
RECURSIVE Release(_, _)
Release(blocks, p) ==
    IF blocks = <<>> THEN <<>>
    ELSE IF blocks[Len(blocks)].data = p THEN SubSeq(blocks, 1, Len(blocks) - 1)
    ELSE Append(Release(SubSeq(blocks, 1, Len(blocks) - 1), p), blocks[Len(blocks)])

\* a call of Free(p), p being the null pointer or any block the caller still holds
StackFree ==
    /\ UNCHANGED exceptStack
    /\ stackPc = "live"
    /\ \E p \in {NullPtr} \cup {outstanding[k].data : k \in 1..Len(outstanding)} :
          IF FreePre(stack, p) /\ FreeMembersPre(stack, stack.m_entries[stack.m_entryCount])
          THEN /\ stack' = Free(stack, p)
               /\ heap' = IF p.arena THEN heap ELSE heap \ {p.at}
               /\ outstanding' = Release(outstanding, p)
               /\ UNCHANGED stackPc
          ELSE /\ stackPc' = "assertion failed"
               /\ UNCHANGED <<stack, heap, outstanding>>

\* ~b2StackAllocator(): b2Assert(m_index == 0) and b2Assert(m_entryCount == 0)
StackDestroy ==
    /\ UNCHANGED exceptStack
    /\ stackPc = "live"
    /\ stackPc' = IF stack.m_index = 0 /\ stack.m_entryCount = 0
                  THEN "destroyed" ELSE "destructor assertion failed"
    /\ UNCHANGED <<stack, heap, outstanding>>

StackNext == StackAllocate \/ StackFree \/ StackDestroy

(***************************************************************************)
(* Manifold.hpp: a Manifold object, built by the default constructor or a  *)
(* factory and then given points by AddPoint.                              *)
(***************************************************************************)
\* the local points and local normals used
LocalPoints == {<<-HalfSide, -HalfSide>>, <<HalfSide, -HalfSide>>, <<0, 0>>}

LocalNormals == {<<0, One>>, <<One, 0>>}

ManifoldPoints == {ManifoldPoint(lp, "face-vertex") : lp \in LocalPoints}

\* the point lists of the factories' overloads: none, one, two different ones
PointLists ==
    {<<>>} \cup {<<mp>> : mp \in ManifoldPoints}
    \cup {mps \in ManifoldPoints \X ManifoldPoints : mps[1] # mps[2]}

\* what the default constructor and the factories build
BuiltManifolds ==
    {DefaultManifold}
    \cup {GetForCircles(vA, vB) : vA \in LocalPoints \cup {InvalidVec}, vB \in LocalPoints}
    \cup {GetForFaceA(ln, lp, mps) : ln \in LocalNormals, lp \in LocalPoints, mps \in PointLists}
    \cup {GetForFaceB(ln, lp, mps) : ln \in LocalNormals, lp \in LocalPoints, mps \in PointLists}

ManifoldInit == theManifold = DefaultManifold

\* a manifold is built; the constructor's assertions stop an invalid one
ManifoldBuild ==
    /\ UNCHANGED exceptManifold
    /\ \E m \in BuiltManifolds :
          /\ ManifoldCtorPre(m.type, m.localNormal, m.localPoint, m.pointCount)
          /\ theManifold' = m

\* a call of AddPoint(mp) that satisfies what AddPoint asserts
ManifoldAddPoint ==
    /\ UNCHANGED exceptManifold
    /\ AddPointPre(theManifold)
    /\ \E mp \in ManifoldPoints : theManifold' = AddPoint(theManifold, mp)

ManifoldNext == ManifoldBuild \/ ManifoldAddPoint


(***************************************************************************)
(* VertexSet.hpp: a VertexSet object under add and clear.  Lengths are     *)
(* whole numbers, areas their products; a coordinate may be infinite or    *)
(* the invalid value.                                                      *)
(***************************************************************************)
\* the most elements the set is grown to
MaxVertices == 3

\* a <= b: false when either is NaN
RLessEq(a, b) == At2(a, b, LAMBDA x, y : x # NaN /\ y # NaN /\ x <= y)

\* the constructor's assertion
VertexSetCtorPre(minSepSquared) == ~RLess(minSepSquared, 0) /\ IsValid(minSepSquared)

\* VertexSet(minSepSquared)
VertexSetCtor(minSepSquared) == [m_elements |-> <<>>, m_minSepSquared |-> minSepSquared]

\* the predicate find applies to an element: GetLengthSquared(value - elem) <= m_minSepSquared
FindPredicate(vs, value, elem) ==
    At(RVSub(value, elem), LAMBDA d :
       RLessEq(RAdd(RMul(d[1], d[1], 1), RMul(d[2], d[2], 1)), vs.m_minSepSquared))

\* end(): the position after the last element
End(vs) == Len(vs.m_elements) + 1

\* find(value): the position of the first element the predicate accepts, or end()
Find(vs, value) ==
    LET hits == {k \in 1..Len(vs.m_elements) : FindPredicate(vs, value, vs.m_elements[k])}
    IN IF hits = {} THEN End(vs) ELSE CHOOSE k \in hits : \A h \in hits : k <= h

\* add(value): the set afterwards and the value returned
Add(vs, value) ==
    IF Find(vs, value) # End(vs)
    THEN [set |-> vs, ret |-> FALSE]
    ELSE [set |-> [vs EXCEPT !.m_elements = Append(@, value)], ret |-> TRUE]

\* clear()
Clear(vs) == [vs EXCEPT !.m_elements = <<>>]

\* the vertices added and the minimum separations squared the set is built with
VertexValues == {<<0, 0>>, <<1, 0>>, <<1, 1>>, <<3, 0>>, <<Infinity, 0>>, <<NaN, NaN>>}

MinSepValues == {0, 1, 4, Infinity}

VSCall(op, value, ret, before) == [op |-> op, value |-> value, ret |-> ret, before |-> before]

VertexSetIdle ==
    /\ vertexSet = VertexSetCtor(0)
    /\ vsLast = VSCall("none", <<0, 0>>, FALSE, <<>>)

VertexSetInit ==
    /\ \E a \in MinSepValues : VertexSetCtorPre(a) /\ vertexSet = VertexSetCtor(a)
    /\ vsLast = VSCall("none", <<0, 0>>, FALSE, <<>>)

VertexSetAdd ==
    /\ UNCHANGED exceptVertexSet
    /\ Len(vertexSet.m_elements) < MaxVertices
    /\ \E value \in VertexValues : \E r \in {Add(vertexSet, value)} :
          /\ vertexSet' = r.set
          /\ vsLast' = VSCall("add", value, r.ret, vertexSet.m_elements)

VertexSetClear ==
    /\ UNCHANGED exceptVertexSet
    /\ vertexSet' = Clear(vertexSet)
    /\ vsLast' = VSCall("clear", <<0, 0>>, FALSE, vertexSet.m_elements)

VertexSetNext == VertexSetAdd \/ VertexSetClear


(***************************************************************************)
(* TimeOfImpact.cpp: the type a SeparationFunction takes from the simplex  *)
(* cache it is constructed with.                                           *)
(***************************************************************************)
\* the largest vertex index of proxy A and of proxy B in a cache
MaxIndexA == 1

MaxIndexB == 2

\* the index pairs (iA, iB) a cache can hold
IndexPairs == (0..MaxIndexA) \X (0..MaxIndexB)

\* the caches of one to three index pairs, no pair held twice
SimplexCaches ==
    {MakeCache(<<p[1]>>, <<p[2]>>) : p \in IndexPairs}
    \cup {MakeCache(<<ps[1][1], ps[2][1]>>, <<ps[1][2], ps[2][2]>>) :
             ps \in {qs \in IndexPairs \X IndexPairs : qs[1] # qs[2]}}
    \cup {MakeCache(<<ps[1][1], ps[2][1], ps[3][1]>>, <<ps[1][2], ps[2][2], ps[3][2]>>) :
             ps \in {qs \in IndexPairs \X IndexPairs \X IndexPairs :
                        qs[1] # qs[2] /\ qs[1] # qs[3] /\ qs[2] # qs[3]}}

SepFcnIdle == sepFcn = [cache |-> MakeCache(<<0>>, <<0>>), type |-> "none"]

SepFcnInit == \E cache \in SimplexCaches : sepFcn = [cache |-> cache, type |-> "none"]

\* the constructor's assertions on the cache
SepFcnCtorPre(cache) == cache.count > 0 /\ cache.count <= 3

\* the constructor runs on the cache: m_type is set
SepFcnConstruct ==
    /\ UNCHANGED exceptSepFcn
    /\ sepFcn.type = "none"
    /\ SepFcnCtorPre(sepFcn.cache)
    /\ sepFcn' = [sepFcn EXCEPT !.type = FcnType(sepFcn.cache)]

\* the object is dropped and another cache is taken
SepFcnDrop ==
    /\ UNCHANGED exceptSepFcn
    /\ sepFcn.type # "none"
    /\ \E cache \in SimplexCaches : sepFcn' = [cache |-> cache, type |-> "none"]

SepFcnNext == SepFcnConstruct \/ SepFcnDrop


(***************************************************************************)
(* Specifications: each subsystem runs on its own.                         *)
(***************************************************************************)
VCIdle ==
    /\ vc = MakeVC(1, <<0, Unit>>, 0, 0, MakeBody(Velocity(<<0, 0>>, 0), 0, 0),
                   MakeBody(Velocity(<<0, 0>>, 0), Unit, 0),
                   [i \in {0} |-> <<<<0, Unit>>, <<0, -Unit>>>>], 0, 0, 0)
    /\ vpc = "idle" /\ vidx = 0 /\ vmax = 0 /\ vacc = 0 /\ vcase = -1
    /\ ventry = vc /\ vmid = vc /\ vret = 0 /\ vcalls = 0

TOIIdle ==
    /\ toiIn = [proxyA |-> Disk(0), proxyB |-> Disk(0),
                sweepA |-> MakeSweep(<<0, 0>>, <<0, 0>>, 0, 0, <<0, 0>>),
                sweepB |-> MakeSweep(<<0, 0>>, <<0, 0>>, 0, 0, <<0, 0>>), tMax |-> 0]
    /\ toi = IdleLocals
    /\ toiStats = NoStats
    /\ toiHist = <<>>

PosIdle ==
    /\ bodyConstraints = [b \in BodyNames |-> BodyConstraint(0, 0, <<0, 0>>, Position(<<0, 0>>, 0))]
    /\ posIn = [constraints |-> <<>>, toi |-> FALSE, bodiesA |-> 0, bodiesB |-> 0, conf |-> RegularConf]
    /\ posRun = PosIdleRun(bodyConstraints)
    /\ posCalls = 0

StackIdle == StackInit

ManifoldIdle == ManifoldInit

InitVC == VCInit /\ TOIIdle /\ PosIdle /\ StackIdle /\ ManifoldIdle /\ VertexSetIdle /\ SepFcnIdle

SpecVC == InitVC /\ [][VCNext]_vars

InitTOI == TOIInit /\ VCIdle /\ PosIdle /\ StackIdle /\ ManifoldIdle /\ VertexSetIdle /\ SepFcnIdle

SpecTOI == InitTOI /\ [][TOINext]_vars

InitPos == PosInit /\ VCIdle /\ TOIIdle /\ StackIdle /\ ManifoldIdle /\ VertexSetIdle /\ SepFcnIdle

SpecPos == InitPos /\ [][PosNext]_vars

InitStack == StackInit /\ VCIdle /\ TOIIdle /\ PosIdle /\ ManifoldIdle /\ VertexSetIdle /\ SepFcnIdle

SpecStack == InitStack /\ [][StackNext]_vars

InitManifold == ManifoldInit /\ VCIdle /\ TOIIdle /\ PosIdle /\ StackIdle /\ VertexSetIdle /\ SepFcnIdle

SpecManifold == InitManifold /\ [][ManifoldNext]_vars

InitVertexSet == VertexSetInit /\ VCIdle /\ TOIIdle /\ PosIdle /\ StackIdle /\ ManifoldIdle /\ SepFcnIdle

SpecVertexSet == InitVertexSet /\ [][VertexSetNext]_vars

InitSepFcn ==
    SepFcnInit /\ VCIdle /\ TOIIdle /\ PosIdle /\ StackIdle /\ ManifoldIdle /\ VertexSetIdle

SpecSepFcn == InitSepFcn /\ [][SepFcnNext]_vars

(***************************************************************************)
(* Properties of the velocity solver (SpecVC).                             *)
(***************************************************************************)
Points == DOMAIN vc.points

\* C1: whatever calls of SolveVelocityConstraint have run or are running, on the
\* sequential path or the block path, every point's accumulated normal impulse is >= 0.
C1_NormalImpulseNonNegative ==
    \A i \in Points : vc.points[i].normalImpulse >= 0

\* a call after the first is about to return with a point whose positive impulse it brought to 0
C1_Witness ==
    /\ vpc = "return"
    /\ vcalls >= 1
    /\ \E i \in Points : ventry.points[i].normalImpulse > 0 /\ vc.points[i].normalImpulse = 0

\* C2 as stated: at the exit of a call every point has
\* |tangentImpulse| <= friction * normalImpulse, with normalImpulse as it is at the exit.
C2_FrictionBoundAtExit ==
    vpc = "return" =>
        \A i \in Points :
            Abs(vc.points[i].tangentImpulse) <= FMul(vc.friction, vc.points[i].normalImpulse)

\* C2 amended: from the end of the friction pass to the exit of the call every point has
\* |tangentImpulse| <= friction * normalImpulse, with normalImpulse as it was accumulated
\* when the call was entered (the normal pass that follows may lower it).
C2_FrictionBoundOnEntryImpulse ==
    vpc \in {"seqnormal", "blocknormal", "return"} =>
        \A i \in Points :
            Abs(vc.points[i].tangentImpulse) <= FMul(vc.friction, ventry.points[i].normalImpulse)

\* a call at its exit whose friction pass was limited by the bound and whose normal
\* pass then lowered the normal impulse
C2_Witness ==
    /\ vpc = "return"
    /\ \E i \in Points :
          /\ vc.points[i].tangentImpulse # 0
          /\ Abs(vc.points[i].tangentImpulse) = FMul(vc.friction, ventry.points[i].normalImpulse)
          /\ vc.points[i].normalImpulse < ventry.points[i].normalImpulse

\* the new accumulated impulses case 1 computes from the constraint the normal pass began on
Case1Solution == VNeg(Transform(BPrime(vmid), vmid.normalMass))

BlockRan == vpc = "return" /\ vcase # -1

\* which cases verify on the constraint the normal pass began on
CaseVerifies(k) ==
    CASE k = 1 -> BlockSolveNormalCase1(vmid, BPrime(vmid)).valid
      [] k = 2 -> BlockSolveNormalCase2(vmid, BPrime(vmid)).valid
      [] k = 3 -> BlockSolveNormalCase3(vmid, BPrime(vmid)).valid
      [] k = 4 -> BlockSolveNormalCase4(vmid, BPrime(vmid)).valid

CaseImpulses(k) ==
    CASE k = 1 -> Case1Solution
      [] k = 2 -> <<FMul(-vmid.points[0].normalMass, BPrime(vmid)[1]), 0>>
      [] k = 3 -> <<0, FMul(-vmid.points[1].normalMass, BPrime(vmid)[2])>>
      [] k = 4 -> <<0, 0>>

\* C9: the block solver applies the first of the cases 1, 2, 3, 4 that verifies and only
\* that one (the accumulated impulses are that case's, the velocities changed once by the
\* difference); when none verifies the velocities of both bodies and the accumulated
\* normal impulses of both points are as they were before the call.
C9_FirstVerifyingCaseOnly ==
    BlockRan =>
        /\ vcase \in 0..4
        /\ \A k \in 1..4 : k < vcase \/ vcase = 0 => ~CaseVerifies(k)
        /\ vcase # 0 =>
              /\ CaseVerifies(vcase)
              /\ GetNormalImpulses(vc) = CaseImpulses(vcase)
              /\ vc = BlockSolveUpdate(vmid, CaseImpulses(vcase))
        /\ vcase = 0 =>
              /\ vc.bodyA.vel = vmid.bodyA.vel
              /\ vc.bodyB.vel = vmid.bodyB.vel
              /\ GetNormalImpulses(vc) = GetNormalImpulses(vmid)
              /\ vc = vmid

\* the block solver gave up on a constraint that carries impulse
C9_Witness ==
    /\ BlockRan
    /\ vcase = 0
    /\ GetNormalImpulses(vmid) # <<0, 0>>

\* C10 as stated: case 1 is accepted only if both components of x are positive.
C10_Case1OnlyIfPositive ==
    BlockRan /\ vcase = 1 => Case1Solution[1] > 0 /\ Case1Solution[2] > 0

\* C10 amended: case 1 is accepted exactly when both components of x are >= 0; a
\* solution with a zero component is accepted by case 1, and the enumeration goes on to
\* case 2 only when a component is negative.
C10_Case1IffNonNegative ==
    BlockRan => (vcase = 1 <=> Case1Solution[1] >= 0 /\ Case1Solution[2] >= 0)

\* case 1 was accepted with a zero component and a positive one
C10_Witness ==
    /\ BlockRan
    /\ vcase = 1
    /\ Case1Solution[1] = 0 \/ Case1Solution[2] = 0
    /\ Case1Solution # <<0, 0>>
    /\ GetNormalImpulses(vc) = Case1Solution

(***************************************************************************)
(* Properties of the time-of-impact search (SpecTOI).                      *)
(***************************************************************************)
TOIStates == {"overlapped", "touching", "separated", "failed", "unknown"}

AtExit == toi.pc = "exit"

\* C3: on every exit path TimeOfImpact returns one of the five states with a time t,
\* 0 <= t <= tMax; every step of the root finder (bisection or secant) stays inside its
\* bracket [a1, a2], which lies inside [t1, t2] and below tMax.
C3_TimeWithinBounds ==
    /\ [](AtExit => /\ toi.output.state \in TOIStates
                    /\ 0 <= toi.output.t
                    /\ toi.output.t <= toiIn.tMax)
    /\ [][toi.pc = "root" => /\ toi.a1 <= toi'.t /\ toi'.t <= toi.a2
                             /\ toi.t1 <= toi.a1 /\ toi.a2 <= toi.t2
                             /\ toi.t2 <= toiIn.tMax]_vars

\* a call leaves with a time strictly inside (0, tMax) that a secant step found
C3_Witness ==
    /\ AtExit
    /\ toi.output.state = "touching"
    /\ 0 < toi.output.t /\ toi.output.t < toiIn.tMax
    /\ toi.rootIterCount >= 2
    /\ toi.rootIterCount % 2 = 0

\* C8 as stated: for the same proxies and sweeps, of two calls whose results are not
\* failed the one with the smaller tMax returns the smaller or the same time.
C8_MonotoneInTMax ==
    \A i \in DOMAIN toiHist : \A j \in DOMAIN toiHist :
        /\ toiHist[j].tMax <= toiHist[i].tMax
        /\ toiHist[i].output.state # "failed"
        /\ toiHist[j].output.state # "failed"
        => toiHist[j].output.t <= toiHist[i].output.t
\* C8 amended: for the same proxies and sweeps and tMax' <= tMax, the time returned for
\* tMax' is <= the time returned for tMax whenever the result for tMax is separated (its
\* time is tMax), or the result for tMax' is overlapped (its time is 0), or the call for
\* tMax ended at its first distance query (both calls then end there, at time 0).
\* Two times found by the root finder are not ordered: each is some time at which the
\* separation is within the tolerance of the target.
C8_MonotoneOutsideRootFinder ==
    \A i \in DOMAIN toiHist : \A j \in DOMAIN toiHist :
        /\ toiHist[j].tMax <= toiHist[i].tMax
        /\ \/ toiHist[i].output.state = "separated"
           \/ toiHist[j].output.state = "overlapped"
           \/ toiHist[i].via = "distance" /\ toiHist[i].iter = 0
        => toiHist[j].output.t <= toiHist[i].output.t

\* a call that returned separated at tMax followed by a call with a smaller tMax that
\* returned separated at an earlier time
C8_Witness ==
    /\ Len(toiHist) >= 2
    /\ toiHist[1].output.state = "separated"
    /\ toiHist[2].tMax < toiHist[1].tMax
    /\ toiHist[2].output.state = "separated"
    /\ toiHist[2].output.t < toiHist[1].output.t
\* C4 as stated: touching is returned exactly when the witness separation at the returned
\* time lies in [minTarget, maxTarget]; never for a separation below minTarget.
C4_TouchingOnlyInsideBand ==
    AtExit /\ toi.output.state = "touching" =>
        /\ toi.via = "distance" =>
              /\ Square(MinTarget(toiIn)) <= toi.distanceSquared
              /\ toi.distanceSquared <= Square(MaxTarget(toiIn))
        /\ toi.via = "s1" => MinTarget(toiIn) <= toi.s1 /\ toi.s1 <= MaxTarget(toiIn)

\* C4 amended: touching is returned, with t = t1, exactly when the distance query at t1
\* finds 0 < distance < maxTarget (also when the distance is below minTarget) or the
\* separation s1 of the witness pair at t1 lies in [minTarget, maxTarget]; the search goes
\* past the distance query only with distance >= maxTarget.
C4_TouchingBelowMaxTarget ==
    /\ AtExit =>
          (toi.output.state = "touching" <=>
              \/ /\ toi.via = "distance"
                 /\ 0 < toi.distanceSquared
                 /\ toi.distanceSquared < Square(MaxTarget(toiIn))
              \/ /\ toi.via = "s1"
                 /\ MinTarget(toiIn) <= toi.s1
                 /\ toi.s1 <= MaxTarget(toiIn))
    /\ AtExit /\ toi.output.state = "touching" => toi.output.t = toi.t1
    /\ toi.pc \in {"pushback", "root", "afterpush"} => toi.distanceSquared >= Square(MaxTarget(toiIn))

\* touching returned for a witness distance below minTarget
C4_Witness ==
    /\ AtExit
    /\ toi.output.state = "touching"
    /\ toi.via = "distance"
    /\ 0 < toi.distanceSquared
    /\ toi.distanceSquared < Square(MinTarget(toiIn))

\* C5: the outer loop runs at most MaxTOIIterations times, each outer iteration at most
\* MaxPolygonVertices push-back passes, each pass at most MaxTOIRootIterCount root-finder
\* steps.
C5_LoopsBounded ==
    /\ toi.iter <= MaxTOIIterations
    /\ toi.pushBackIter <= MaxPolygonVertices
    /\ toi.rootIterCount <= MaxTOIRootIterCount
    /\ toi.pc = "outer" => toi.iter < MaxTOIIterations
    /\ toi.pc = "root" => toi.rootIterCount < MaxTOIRootIterCount /\ toi.pushBackIter < MaxPolygonVertices

\* every loop ran to its bound: the last root-finder step of the last push-back pass of
\* the last outer iteration
C5_Witness ==
    /\ toi.pc = "afterpush"
    /\ toi.iter = MaxTOIIterations - 1
    /\ toi.pushBackIter = MaxPolygonVertices
    /\ toi.rootIterCount = MaxTOIRootIterCount

\* C6: whenever the distance query at t1 finds the squared distance <= 0 the call ends
\* there: the next step returns overlapped with t = 0.
C6_OverlappedAtZero ==
    toi.pc \notin {"idle", "outer"} /\ toi.distanceSquared <= 0 =>
        /\ AtExit
        /\ toi.via = "distance"
        /\ toi.output = TOIOutput("overlapped", 0)

\* a distance query found the bodies overlapping
C6_Witness ==
    /\ AtExit
    /\ toi.distanceSquared <= 0
    /\ toi.output.state = "overlapped"

\* C7: when the outer loop has completed MaxTOIIterations iterations without reaching
\* overlapped, touching or separated, the call returns failed with t = t1; the loop is not
\* left that way earlier.
C7_ExhaustedFailsAtT1 ==
    /\ AtExit /\ toi.via = "exhausted" =>
          /\ toi.output = TOIOutput("failed", toi.t1)
          /\ toi.iter = MaxTOIIterations
          /\ ~toi.done
    /\ AtExit /\ toi.iter = MaxTOIIterations /\ ~toi.done => toi.via = "exhausted"
    /\ toi.pc \in {"outer", "pushback", "root"} => toi.iter < MaxTOIIterations

\* a call whose outer loop ran out of iterations
C7_Witness ==
    /\ AtExit
    /\ toi.via = "exhausted"
    /\ toi.output.state = "failed"
    /\ toi.iter = MaxTOIIterations

\* the largest magnitude among the changes the current call made to the accumulated
\* tangent impulses (friction pass) and normal impulses (normal pass) of the points
MaxIncrement ==
    LET incs == {Abs(vmid.points[i].tangentImpulse - ventry.points[i].tangentImpulse) : i \in Points}
                \cup {Abs(vc.points[i].normalImpulse - vmid.points[i].normalImpulse) : i \in Points}
    IN CHOOSE m \in incs : \A x \in incs : x <= m

\* C11: SolveVelocityConstraint returns the maximum magnitude of the incremental impulses
\* (new accumulated minus old accumulated) applied to any point during the call, over
\* the friction pass and the normal pass, on the sequential path and for every block case.
C11_ReturnsMaxIncrement ==
    vpc = "return" => vacc = MaxIncrement

(***************************************************************************)
(* Properties of the position solver (SpecPos).                            *)
(***************************************************************************)
\* a constraint of the running or the last call has been solved
HasSolved == posRun.pc # "aborted" /\ posRun.i > 1

\* the constraint solved last, and its bodies as they were before
LastPc == posIn.constraints[posRun.i - 1]

BeforeA == posRun.before[LastPc.bodyA]

BeforeB == posRun.before[LastPc.bodyB]

\* the manifold of point k of the constraint solved last, from the positions before
EntryPSM(k) ==
    GetPSM(LastPc.manifold, k, BeforeA.position, BeforeA.localCenter,
           BeforeB.position, BeforeB.localCenter)

\* the correction solver_fn computes for the manifold psm from the positions before
EntryCorrection(psm) ==
    SolverFn(SolverMasses(LastPc, posRun.before, posRun.moveA, posRun.moveB), posIn.conf, psm,
             BeforeA.position.linear, BeforeB.position.linear)

\* the manifold of point k from the positions that the correction s leaves
CorrectedPSM(k, s) ==
    GetPSM(LastPc.manifold, k, PositionAdd(BeforeA.position, s.pos_a), BeforeA.localCenter,
           PositionAdd(BeforeB.position, s.pos_b), BeforeB.localCenter)

\* the last constraint solved had two points with valid separations
TwoValidPoints ==
    /\ HasSolved
    /\ GetPointCount(LastPc.manifold) = 2
    /\ IsValid(EntryPSM(0).m_separation) /\ IsValid(EntryPSM(1).m_separation)

\* the point of smaller separation was corrected first, from the positions before, and the
\* other point then from its manifold recomputed at the corrected positions
MostPenetratingFirst ==
    LET calls == posRun.solved.calls
        first == IF RLess(EntryPSM(1).m_separation, EntryPSM(0).m_separation) THEN 1 ELSE 0
    IN /\ Len(calls) = 2
       /\ calls[1] = SolverCall(first, EntryPSM(first))
       /\ calls[2] = SolverCall(1 - first, CorrectedPSM(1 - first, EntryCorrection(EntryPSM(first))))

\* both points were corrected from the positions before
BothFromEntry ==
    posRun.solved.calls = <<SolverCall(0, EntryPSM(0)), SolverCall(1, EntryPSM(1))>>

\* C12 (as stated): for every 2-point manifold the more penetrating point is corrected
\* first and the other point's separation is recomputed from the corrected positions
\* before it is corrected; never are both corrected from the same uncorrected positions.
C12_AlwaysMostPenetratingFirst ==
    TwoValidPoints => MostPenetratingFirst

\* C12 (amended): for a 2-point manifold whose separations are valid and not almost equal
\* the more penetrating point is corrected first and the other is recomputed from the
\* corrected positions; when they are almost equal both points are corrected from the same
\* uncorrected positions.
C12_MostPenetratingFirstUnlessAlmostEqual ==
    TwoValidPoints =>
        IF AlmostEqual(EntryPSM(0).m_separation, EntryPSM(1).m_separation)
        THEN BothFromEntry
        ELSE MostPenetratingFirst

\* an ordered solve whose first correction changed the manifold of the second point
C12_Witness ==
    /\ TwoValidPoints
    /\ ~AlmostEqual(EntryPSM(0).m_separation, EntryPSM(1).m_separation)
    /\ Len(posRun.solved.calls) = 2
    /\ posRun.solved.calls[2].psm # EntryPSM(posRun.solved.calls[2].index)

\* a call of the TOI variant has returned
TOIVariantReturned == posRun.pc = "idle" /\ posCalls > 0 /\ posIn.toi

\* C13: after a call of the TOI variant of SolvePositionConstraints the position (linear
\* and angular) of every body that is neither bodiesA nor bodiesB is what it was on entry,
\* for every constraint list, also one with a constraint of two such bodies.
C13_OtherBodiesUnchanged ==
    TOIVariantReturned =>
        \A b \in BodyNames \ {posIn.bodiesA, posIn.bodiesB} :
            bodyConstraints[b].position = posRun.entry[b].position

\* the effective mass K of the first point solved of the constraint solved last
FirstK ==
    LET psm == posRun.solved.calls[1].psm
    IN EffectiveMassK(SolverMasses(LastPc, posRun.before, posRun.moveA, posRun.moveB), psm,
                      RVSub(psm.m_point, BeforeA.position.linear),
                      RVSub(psm.m_point, BeforeB.position.linear))

\* C14: when the effective mass at a contact point is zero the position solver skips the
\* point: nothing is divided by it and both bodies' positions are returned unchanged.
C14_ZeroMassPointSkipped ==
    (HasSolved /\ Len(posRun.solved.calls) > 0 /\ FirstK = 0) =>
        /\ posRun.solved.pos_a = BeforeA.position
        /\ posRun.solved.pos_b = BeforeB.position

\* the constraint solved last had no point, or a point whose separation was invalid
InvalidOrNoPoint ==
    /\ HasSolved
    /\ \/ GetPointCount(LastPc.manifold) = 0
       \/ \E k \in 0..(GetPointCount(LastPc.manifold) - 1) : ~IsValid(EntryPSM(k).m_separation)

\* C15: for a manifold point whose separation is invalid (NaN), in a 1-point as in a
\* 2-point manifold, and for a manifold without points, SolvePositionConstraint returns
\* both body positions unchanged and +infinity as the minimum separation.
C15_InvalidSeparationSkipped ==
    InvalidOrNoPoint =>
        /\ posRun.solved.pos_a = BeforeA.position
        /\ posRun.solved.pos_b = BeforeB.position
        /\ posRun.solved.min_separation = Infinity

\* the smallest of a non-empty set of valid numbers
MinOf(S) == CHOOSE m \in S : \A x \in S : ~RLess(x, m)

\* the separations (less the total radius) of the points of the constraint solved last
EntrySeparations ==
    {RSub(EntryPSM(k).m_separation, LastPc.radiusA + LastPc.radiusB) :
        k \in 0..(GetPointCount(LastPc.manifold) - 1)}

\* C16: the minimum separation SolvePositionConstraint reports for a 2-point manifold is
\* the smaller of the two points' separations, also when the two are almost equal;
\* SolvePositionConstraints returns +infinity for an empty list.
C16_MinOverPoints ==
    /\ TwoValidPoints => posRun.solved.min_separation = MinOf(EntrySeparations)
    /\ (posRun.pc = "idle" /\ posCalls > 0 /\ posIn.constraints = <<>>) => posRun.ret = Infinity

(***************************************************************************)
(* Properties of the stack allocator (SpecStack).                          *)
(***************************************************************************)
\* the sum of the sizes of the caller's blocks
RECURSIVE SumSizes(_)
SumSizes(blocks) ==
    IF blocks = <<>> THEN 0 ELSE blocks[Len(blocks)].size + SumSizes(SubSeq(blocks, 1, Len(blocks) - 1))

\* a step in which Allocate has made an entry, and one in which Free has taken one away
AllocateStep == stack'.m_entryCount = stack.m_entryCount + 1

FreeStep == stack'.m_entryCount = stack.m_entryCount - 1

\* C17: Free(p) goes through only when an allocation is outstanding and p is the block of
\* the most recent Allocate not yet freed; m_entryCount is the number of outstanding
\* allocations and m_allocation the sum of their sizes.
C17_LIFODiscipline ==
    /\ [](/\ stack.m_entryCount = Len(outstanding)
          /\ stack.m_allocation = SumSizes(outstanding))
    /\ [][FreeStep =>
            (/\ Len(outstanding) > 0
             /\ outstanding' = SubSeq(outstanding, 1, Len(outstanding) - 1))]_vars

\* a block has been freed while older blocks are still outstanding
C17_Witness ==
    /\ stackPc = "live"
    /\ stack.m_entryCount > 1
    /\ stack.m_maxAllocation > stack.m_allocation

\* C18: an Allocate(size) with m_index + size > b2_stackSize is served by the system
\* allocator: its entry is marked usedMalloc, and that Allocate and the matching Free
\* leave m_index unchanged; m_index never exceeds b2_stackSize.
C18_ArenaOverflowUsesMalloc ==
    /\ [](stack.m_index <= b2_stackSize)
    /\ [][/\ (AllocateStep /\ stack.m_index + stack'.m_entries[stack'.m_entryCount].size > b2_stackSize) =>
                  (/\ stack'.m_entries[stack'.m_entryCount].usedMalloc
                   /\ ~stack'.m_entries[stack'.m_entryCount].data.arena
                   /\ stack'.m_index = stack.m_index)
          /\ (FreeStep /\ stack.m_entries[stack.m_entryCount].usedMalloc) =>
                  stack'.m_index = stack.m_index]_vars

\* a block of the system allocator has been freed while part of the arena is in use
C18_Witness ==
    /\ stack.m_index > 0
    /\ stack.m_maxAllocation > b2_stackSize
    /\ \A k \in 1..stack.m_entryCount : ~stack.m_entries[k].usedMalloc

\* C19: once every Allocate has been matched by a Free in reverse order, arena and
\* system-allocator entries mixed, m_index, m_entryCount and m_allocation are 0 and the
\* destructor's assertions hold.
C19_EmptyAfterMatchedFrees ==
    outstanding = <<>> =>
        /\ stack.m_index = 0 /\ stack.m_entryCount = 0 /\ stack.m_allocation = 0
        /\ stackPc # "destructor assertion failed"

\* the destructor has run after arena blocks and system blocks were allocated and freed
C19_Witness ==
    /\ outstanding = <<>>
    /\ stackPc = "destroyed"
    /\ stack.m_maxAllocation > b2_stackSize + 1

ImpulseBetween(v, w) ==
    LET Change(i) == VAdd(VScale(w.points[i].normalImpulse - v.points[i].normalImpulse, v.normal),
                          VScale(w.points[i].tangentImpulse - v.points[i].tangentImpulse, v.tangent))
    IN IF v.count = 1 THEN Change(0) ELSE VAdd(Change(0), Change(1))

\* going from v to w, body A's linear velocity changed by -invMassA * P and body B's
\* by +invMassB * P
EqualAndOpposite(v, w, P) ==
    /\ w.bodyA.vel.linear = VSub(v.bodyA.vel.linear, VScale(v.bodyA.invMass, P))
    /\ w.bodyB.vel.linear = VAdd(v.bodyB.vel.linear, VScale(v.bodyB.invMass, P))

\* C29: every impulse change the velocity solver applies (tangent pass, sequential
\* normal pass, block update) is equal and opposite on the two bodies: for the impulse
\* P by which the accumulated impulses grow, body A's linear velocity changes by
\* -invMassA * P and body B's by +invMassB * P; hence over a whole call the accumulated
\* impulses have grown by the sum of the increments applied, which the velocities show.
C29_ImpulsesEqualAndOpposite ==
    /\ [][(vpc = "tangent" \/ vpc = "seqnormal" \/ vpc = "blocknormal") =>
             EqualAndOpposite(vc, vc', ImpulseBetween(vc, vc'))]_vars
    /\ [](EqualAndOpposite(ventry, vc, ImpulseBetween(ventry, vc)))

\* a call on two movable bodies is about to return, its friction pass and its block
\* update each having applied an impulse
C29_Witness ==
    /\ vpc = "return"
    /\ vcase >= 1
    /\ vc.bodyA.invMass > 0
    /\ \E i \in Points : vmid.points[i].tangentImpulse # ventry.points[i].tangentImpulse
    /\ \A i \in Points : vc.points[i].normalImpulse # vmid.points[i].normalImpulse
    /\ vc.bodyA.vel.linear # ventry.bodyA.vel.linear

\* C30: within one call of SolveVelocityConstraint the friction pass runs entirely
\* before the normal pass, each point's tangent impulse being clamped against the
\* normal impulse accumulated when the call was entered; and in each sequential pass on
\* a 2-point constraint point 1 is solved and applied before point 0, the solve of
\* point 0 seeing the velocities the solve of point 1 has updated.
C30_FrictionFirstPointOneFirst ==
    /\ [][vpc = "idle" /\ vpc' # "idle" => vpc' = "tangent" /\ vidx' = vc.count - 1]_vars
    /\ [][vpc = "tangent" =>
             /\ vpc' \in {"tangent", "seqnormal", "blocknormal"}
             /\ (vpc' = "tangent") = (vidx > 0)
             /\ vpc' = "tangent" => vidx' = vidx - 1
             /\ vpc' # "tangent" => vidx' = vc.count - 1
             /\ \A i \in Points :
                   /\ vc'.points[i].normalImpulse = ventry.points[i].normalImpulse
                   /\ i < vidx => vc'.points[i].tangentImpulse = ventry.points[i].tangentImpulse
                   /\ i > vidx => vc'.points[i].tangentImpulse = vc.points[i].tangentImpulse
             /\ vc'.points[vidx].tangentImpulse =
                   vc.points[vidx].tangentImpulse + SolveTangentPoint(vc, vidx).magnitude
             /\ Abs(vc'.points[vidx].tangentImpulse)
                   <= FMul(vc.friction, ventry.points[vidx].normalImpulse)]_vars
    /\ [][vpc = "seqnormal" =>
             /\ vpc' \in {"seqnormal", "return"}
             /\ (vpc' = "seqnormal") = (vidx > 0)
             /\ vpc' = "seqnormal" => vidx' = vidx - 1
             /\ \A i \in Points :
                   /\ vc'.points[i].tangentImpulse = vmid.points[i].tangentImpulse
                   /\ i < vidx => vc'.points[i].normalImpulse = vmid.points[i].normalImpulse
                   /\ i > vidx => vc'.points[i].normalImpulse = vc.points[i].normalImpulse
             /\ vc'.points[vidx].normalImpulse =
                   vc.points[vidx].normalImpulse + SolveNormalPoint(vc, vidx).magnitude]_vars
    /\ [][vpc = "blocknormal" =>
             /\ vpc' = "return"
             /\ \A i \in Points : vc'.points[i].tangentImpulse = vmid.points[i].tangentImpulse]_vars

\* a sequential normal pass on a 2-point constraint is about to solve point 0, point 1
\* having changed the velocities, after a friction pass in which both points applied
\* an impulse
C30_Witness ==
    /\ vpc = "seqnormal"
    /\ vc.count = 2
    /\ vidx = 0
    /\ vc.points[1].normalImpulse # vmid.points[1].normalImpulse
    /\ vc.bodyB.vel # vmid.bodyB.vel
    /\ \A i \in Points : vmid.points[i].tangentImpulse # ventry.points[i].tangentImpulse

(***************************************************************************)
(* Properties of the vertex set (SpecVertexSet).                           *)
(***************************************************************************)
\* the squared distance of two stored elements, as find computes it
StoredDistanceSquared(i, j) ==
    At(RVSub(vertexSet.m_elements[j], vertexSet.m_elements[i]), LAMBDA d :
       RAdd(RMul(d[1], d[1], 1), RMul(d[2], d[2], 1)))

\* C21: every two elements stored at different places of a VertexSet have a squared
\* distance strictly greater than the set's minimum separation squared.
C21_MinSeparationKept ==
    \A i, j \in 1..Len(vertexSet.m_elements) :
        i < j => RLess(vertexSet.m_minSepSquared, StoredDistanceSquared(i, j))

\* some element stored before the last call is within the minimum separation of v
WithinMinSeparation(v) ==
    \E k \in 1..Len(vsLast.before) :
        FindPredicate(vertexSet, v, vsLast.before[k])

\* what add(v) returned and did to the elements agrees with the contract
AddContract ==
    vsLast.op = "add" =>
        IF WithinMinSeparation(vsLast.value)
        THEN ~vsLast.ret /\ vertexSet.m_elements = vsLast.before
        ELSE vsLast.ret /\ vertexSet.m_elements = Append(vsLast.before, vsLast.value)

\* an add that follows an add of the same vertex that returned true returns false
SecondAddRefused ==
    (vsLast.op = "add" /\ vsLast.ret /\ vsLast'.op = "add" /\ vsLast'.value = vsLast.value)
        => ~vsLast'.ret

\* C22: add(v) returns false and changes nothing when a stored element is within the
\* minimum separation of v, else returns true and appends v; and of two adds in a row
\* of the same vertex at most one returns true.
C22_AddContractAndNoDoubleAdd == []AddContract /\ [][SecondAddRefused]_vars

C25_T1Monotone ==
    /\ [](toi.pc # "idle" => 0 <= toi.t1 /\ toi.t1 <= toiIn.tMax)
    /\ [][toi.pc = "idle" /\ toi'.pc # "idle" => toi'.t1 = 0]_vars
    /\ [][toi.pc # "idle" =>
             /\ toi.t1 <= toi'.t1
             /\ toi'.t1 # toi.t1 =>
                   (/\ toi.pc = "pushback"
                    /\ toi'.t1 = toi.t2
                    /\ toi.t2 <= toiIn.tMax
                    /\ MinTarget(toiIn) < toi'.s2
                    /\ toi'.s2 <= MaxTarget(toiIn))]_vars

\* in a later outer iteration t1 has just advanced to a time the root finder found,
\* strictly between the t1 before and tMax
C25_Witness ==
    /\ toi.pc = "afterpush"
    /\ ~toi.done
    /\ toi.iter >= 1
    /\ toi.pushBackIter >= 1
    /\ toi.t1 = toi.t2
    /\ toi.t1 = toi.t
    /\ 0 < toi.t1 /\ toi.t1 < toiIn.tMax

\* C26: whenever TimeOfImpact returns separated the returned time is tMax: the test
\* s2 > maxTarget succeeds only while t2 holds tMax, never after the root finder has
\* replaced t2.
C26_SeparatedOnlyAtTMax ==
    /\ [](toi.pc \in {"afterpush", "exit"} /\ toi.output.state = "separated" =>
              toi.output.t = toiIn.tMax /\ toi.t2 = toiIn.tMax)
    /\ [][toi.pc = "pushback" /\ toi'.via = "s2" =>
              toi.t2 = toiIn.tMax /\ toi'.output = TOIOutput("separated", toiIn.tMax)]_vars

\* separated is returned in a later outer iteration, t1 having been advanced to a root
C26_Witness ==
    /\ AtExit
    /\ toi.output.state = "separated"
    /\ toi.iter >= 2
    /\ 0 < toi.t1

\* C27: in a push-back pass whose minimum separation s2 at t2 is <= minTarget, the
\* separation s1 of the same index pair at t1 decides: s1 < minTarget returns failed at
\* t1, minTarget <= s1 <= maxTarget returns touching at t1, and only s1 > maxTarget
\* starts the root search on [t1, t2].
C27_S1Decides ==
    [][toi.pc = "pushback" /\ toi.pushBackIter < MaxPolygonVertices
       /\ toi'.s2 <= MinTarget(toiIn) =>
          /\ toi'.s2 = toi'.minSeparation.distance
          /\ toi'.s1 = Evaluate(toi.fcn, toi'.minSeparation.indexPair, toi.t1)
          /\ toi'.s1 < MinTarget(toiIn) =>
                (toi'.done /\ toi'.output = TOIOutput("failed", toi.t1) /\ toi'.pc = "afterpush")
          /\ MinTarget(toiIn) <= toi'.s1 /\ toi'.s1 <= MaxTarget(toiIn) =>
                (toi'.done /\ toi'.output = TOIOutput("touching", toi.t1) /\ toi'.pc = "afterpush")
          /\ toi'.s1 > MaxTarget(toiIn) =>
                (/\ ~toi'.done /\ toi'.pc = "root" /\ toi'.output = toi.output
                 /\ toi'.a1 = toi.t1 /\ toi'.a2 = toi.t2 /\ toi'.rootIterCount = 0)
          /\ toi'.pc = "root" => toi'.s1 > MaxTarget(toiIn)]_vars

\* a push-back pass found the deepest pair at t2 at or below minTarget and the same pair
\* inside the band at t1, and returned touching at t1
C27_Witness ==
    /\ toi.pc = "afterpush"
    /\ toi.via = "s1"
    /\ toi.s2 <= MinTarget(toiIn)
    /\ MinTarget(toiIn) <= toi.s1 /\ toi.s1 <= MaxTarget(toiIn)
    /\ toi.output = TOIOutput("touching", toi.t1)

\* C28: TimeOfImpact never returns the state unknown: the output it starts with is
\* replaced on every path out of the outer loop.
C28_NeverUnknown ==
    /\ AtExit => toi.output.state \in TOIStates \ {"unknown"}
    /\ \A k \in DOMAIN toiHist : toiHist[k].output.state \in TOIStates \ {"unknown"}
    /\ toi.pc \in {"outer", "pushback", "root"} => toi.output = TOIOutput("unknown", toiIn.tMax)

\* a call that left the outer loop because it ran out of iterations has returned
C28_Witness ==
    /\ toi.pc = "idle"
    /\ Len(toiHist) >= 1
    /\ toiHist[Len(toiHist)].via = "exhausted"
    /\ toiHist[Len(toiHist)].output.state = "failed"

(***************************************************************************)
(* Properties of the separation function's type (SpecSepFcn).              *)
(***************************************************************************)
SepFcnBuilt == sepFcn.type # "none"

=============================================================================
